---- MODULE Spec2Model ----
(***************************************************************************)
(* Model of the EV core of BovadaEVBot (src/ev_engine.py) and of its       *)
(* market filter (src/bovada_filter.py):                                   *)
(*   - select_top_bets, the bounded top-N selection with fallback fill;    *)
(*   - EVEngine.calc_ev with _american_to_prob, in binary64 arithmetic;    *)
(*   - EVEngine.calc_fair_line with _prob_to_american, in exact            *)
(*     arithmetic, and the round trip of the two conversions;              *)
(*   - EVEngine.get_top_bets and the lines main.format_bet_lines writes    *)
(*     for its selection;                                                  *)
(*   - BovadaFilter.filter_markets.                                        *)
(* An exact number is a rational <<numerator, denominator>> in lowest      *)
(* terms with a positive denominator.                                      *)
(***************************************************************************)
EXTENDS Integers, Sequences, FiniteSets, TLC

VARIABLES
    pc,           \* position of the driver: which call is pending / returned
    results,      \* select_top_bets: the candidate list passed in
    min_edge,     \* select_top_bets: threshold argument
    top_n,        \* select_top_bets: requested count
    selected,     \* select_top_bets: the returned list
    bovada_odds,  \* calc_ev: the bookmaker price passed in
    fair_odds,    \* calc_ev: the fair price passed in
    ev,           \* calc_ev: the returned value
    game,         \* calc_fair_line: the game record passed in
    fair_lines,   \* calc_fair_line: the returned dict, or the raised error
    prob_accum,   \* calc_fair_line: outcome_prob_accum as the last call left it
    first_lines,  \* calc_fair_line: what the first call on game returned
    fair_calls,   \* calc_fair_line: the number of calls made so far
    trip_odds,    \* odds conversion: the American odds passed in
    trip_prob,    \* odds conversion: the result of _american_to_prob
    trip_american, \* odds conversion: the result of _prob_to_american
    games_data,   \* get_top_bets: the batch of game records passed in
    bookmaker_aliases, \* get_top_bets: the aliases passed in
    candidates,   \* get_top_bets: the list handed to select_top_bets
    top_bets,     \* get_top_bets: the returned selection, or the raised error
    message,      \* format_bet_lines: the lines of the returned text
    raw_markets,  \* filter_markets: the provider records passed in
    filtered_markets  \* filter_markets: the returned list, or the raised error

selectVars == <<results, min_edge, top_n, selected>>
evVars == <<bovada_odds, fair_odds, ev>>
fairVars == <<game, fair_lines, prob_accum, first_lines, fair_calls>>
tripVars == <<trip_odds, trip_prob, trip_american>>
topVars == <<games_data, bookmaker_aliases, candidates, top_bets, message>>
filterVars == <<raw_markets, filtered_markets>>

vars == <<pc, selectVars, evVars, fairVars, tripVars, topVars, filterVars>>

----------------------------------------------------------------------------
(* Exact numbers.  A Python number is <<n, d>> with d > 0 and gcd(n,d) = 1;*)
(* a value that is not a number (None, a string) is NotANumber.            *)

Abs(x) == IF x < 0 THEN -x ELSE x

RECURSIVE Gcd(_, _)
Gcd(a, b) == IF b = 0 THEN a ELSE Gcd(b, a % b)

Rat(n, d) ==
    LET g == Gcd(Abs(n), Abs(d))
        sgn == IF d < 0 THEN -1 ELSE 1
    IN <<sgn * (n \div g), sgn * (d \div g)>>

Num(i) == <<i, 1>>
NotANumber == <<0, 0>>

(* isinstance(x, (int, float)) *)
IsNumber(x) == x[2] # 0

RAdd(a, b) == Rat(a[1] * b[2] + b[1] * a[2], a[2] * b[2])
RSub(a, b) == Rat(a[1] * b[2] - b[1] * a[2], a[2] * b[2])
RMul(a, b) == Rat(a[1] * b[1], a[2] * b[2])
RDiv(a, b) == Rat(a[1] * b[2], a[2] * b[1])
RAbs(a) == <<Abs(a[1]), a[2]>>
RLt(a, b) == a[1] * b[2] < b[1] * a[2]
RLe(a, b) == a[1] * b[2] <= b[1] * a[2]
RIsZero(a) == a[1] = 0
RPos(a) == a[1] > 0
RNeg(a) == a[1] < 0

RZero == Num(0)
ROne == Num(1)
RHundred == Num(100)

RECURSIVE RSum(_)
RSum(s) == IF s = <<>> THEN RZero ELSE RAdd(Head(s), RSum(Tail(s)))

----------------------------------------------------------------------------
(* IEEE-754 binary64 arithmetic, as CPython evaluates float expressions.    *)
(* A double is [sign, m, e] with value sign * m * 2^e, where the mantissa  *)
(* m is a natural number of exactly 53 bits (or 0 for 0.0).  Naturals of   *)
(* that size are kept as sequences of 13-bit limbs, least significant      *)
(* first, without leading zero limbs.  Results are rounded to nearest,     *)
(* ties to even.  The exponent range is not modelled: no value of the      *)
(* model comes near overflow or underflow.                                 *)

MantissaBits == 53     \* precision of a Python float
LimbBits == 13         \* bits per limb
LimbBase == 8192       \* 2^LimbBits
QuotientLimbs == 6     \* fraction limbs produced by the long division

Max(a, b) == IF a >= b THEN a ELSE b
Min(a, b) == IF a <= b THEN a ELSE b

Reverse(s) == [i \in 1..Len(s) |-> s[Len(s) + 1 - i]]

Limb(a, i) == IF i >= 1 /\ i <= Len(a) THEN a[i] ELSE 0

BTrim(a) ==
    LET nz == {i \in 1..Len(a) : a[i] # 0}
    IN IF nz = {} THEN <<>>
       ELSE SubSeq(a, 1, CHOOSE i \in nz : \A j \in nz : j <= i)

RECURSIVE BAddFrom(_, _, _, _, _)
BAddFrom(a, b, i, carry, acc) ==
    IF i > Max(Len(a), Len(b))
    THEN IF carry > 0 THEN Append(acc, carry) ELSE acc
    ELSE LET t == Limb(a, i) + Limb(b, i) + carry
         IN BAddFrom(a, b, i + 1, t \div LimbBase, Append(acc, t % LimbBase))

BAdd(a, b) == BAddFrom(a, b, 1, 0, <<>>)

(* a - b for a >= b *)
RECURSIVE BSubFrom(_, _, _, _, _)
BSubFrom(a, b, i, borrow, acc) ==
    IF i > Len(a) THEN BTrim(acc)
    ELSE LET t == Limb(a, i) - Limb(b, i) - borrow
         IN BSubFrom(a, b, i + 1, IF t < 0 THEN 1 ELSE 0,
                     Append(acc, IF t < 0 THEN t + LimbBase ELSE t))

BSub(a, b) == BSubFrom(a, b, 1, 0, <<>>)

BGe(a, b) ==
    \/ Len(a) > Len(b)
    \/ /\ Len(a) = Len(b)
       /\ LET diff == {i \in 1..Len(a) : a[i] # b[i]}
              top == CHOOSE i \in diff : \A j \in diff : j <= i
          IN diff = {} \/ a[top] > b[top]

(* the coefficient of LimbBase^(k-1) in a * b, before carrying *)
RECURSIVE MulColumn(_, _, _, _)
MulColumn(a, b, k, i) ==
    IF i > Len(a) THEN 0
    ELSE Limb(a, i) * Limb(b, k + 1 - i) + MulColumn(a, b, k, i + 1)

RECURSIVE MulCarry(_, _, _, _, _)
MulCarry(a, b, k, carry, acc) ==
    IF k > Len(a) + Len(b) THEN BTrim(acc)
    ELSE LET t == MulColumn(a, b, k, 1) + carry
         IN MulCarry(a, b, k + 1, t \div LimbBase, Append(acc, t % LimbBase))

BMul(a, b) == MulCarry(a, b, 1, 0, <<>>)

(* bit k (k >= 0) of a *)
BitOf(a, k) == (Limb(a, (k \div LimbBits) + 1) \div (2 ^ (k % LimbBits))) % 2

BitLen(a) ==
    IF a = <<>> THEN 0
    ELSE LimbBits * (Len(a) - 1)
            + (CHOOSE w \in 1..LimbBits : a[Len(a)] < 2 ^ w /\ a[Len(a)] >= 2 ^ (w - 1))

(* a * 2^s *)
BShl(a, s) ==
    LET q == s \div LimbBits
        r == s % LimbBits
    IN BTrim([i \in 1..(Len(a) + q + 1) |->
                 ((Limb(a, i - q) * (2 ^ r)) % LimbBase)
                     + (Limb(a, i - q - 1) \div (2 ^ (LimbBits - r)))])

(* floor(a / 2^s) *)
BShr(a, s) ==
    LET q == s \div LimbBits
        r == s % LimbBits
    IN BTrim([i \in 1..Len(a) |->
                 (Limb(a, i + q) \div (2 ^ r))
                     + ((Limb(a, i + q + 1) % (2 ^ r)) * (2 ^ (LimbBits - r)))])

FZero == [sign |-> 0, m |-> <<>>, e |-> 0]

(* Round sign * (a + fraction) * 2^e to a double; sticky tells that a      *)
(* nonzero fraction below the last bit of a was cut off.                   *)
RoundToDouble(sign, a, sticky, e) ==
    LET n == BitLen(a)
        s == n - MantissaBits
    IN IF n = 0 THEN FZero
       ELSE IF s <= 0
       THEN [sign |-> sign, m |-> BShl(a, -s), e |-> e + s]
       ELSE LET keep == BShr(a, s)
                guard == BitOf(a, s - 1)
                rest == sticky \/ \E k \in 0..(s - 2) : BitOf(a, k) = 1
                up == guard = 1 /\ (rest \/ BitOf(keep, 0) = 1)
                kept == IF up THEN BAdd(keep, <<1>>) ELSE keep
            IN IF BitLen(kept) > MantissaBits
               THEN [sign |-> sign, m |-> BShr(kept, 1), e |-> e + s + 1]
               ELSE [sign |-> sign, m |-> kept, e |-> e + s]

(* long division: the first k fraction limbs of r / b (r < b), most        *)
(* significant first, and whether a remainder is left                      *)
RECURSIVE FracLimbs(_, _, _, _)
FracLimbs(r, b, k, acc) ==
    IF k = 0 THEN [limbs |-> acc, sticky |-> r # 0]
    ELSE FracLimbs((r * LimbBase) % b, b, k - 1, Append(acc, (r * LimbBase) \div b))

(* the double nearest to a / b, for naturals a and b > 0: float division   *)
(* of two exactly representable operands whose ratio is a / b              *)
FDivNat(a, b) ==
    IF a = 0 THEN FZero
    ELSE LET f == FracLimbs(a % b, b, QuotientLimbs, <<>>)
             int == a \div b
         IN RoundToDouble(1,
                          BTrim(Reverse(f.limbs) \o <<int % LimbBase, int \div LimbBase>>),
                          f.sticky, -(LimbBits * QuotientLimbs))

FOne == FDivNat(1, 1)

FNeg(x) == [x EXCEPT !.sign = -x.sign]

FMul(x, y) ==
    IF x.sign = 0 \/ y.sign = 0 THEN FZero
    ELSE RoundToDouble(x.sign * y.sign, BMul(x.m, y.m), FALSE, x.e + y.e)

FAdd(x, y) ==
    IF x.sign = 0 THEN y
    ELSE IF y.sign = 0 THEN x
    ELSE LET emin == Min(x.e, y.e)
             bx == BShl(x.m, x.e - emin)
             by == BShl(y.m, y.e - emin)
         IN IF x.sign = y.sign
            THEN RoundToDouble(x.sign, BAdd(bx, by), FALSE, emin)
            ELSE IF BGe(bx, by)
            THEN RoundToDouble(x.sign, BSub(bx, by), FALSE, emin)
            ELSE RoundToDouble(y.sign, BSub(by, bx), FALSE, emin)

FSub(x, y) == FAdd(x, FNeg(y))

(* x >= 1.0 for a double x *)
FGeOne(x) == x.sign = 1 /\ x.e + MantissaBits - 1 >= 0

----------------------------------------------------------------------------
(* Values of the variables a driver does not use.                          *)

IdleSelect ==
    /\ results = <<>>
    /\ min_edge = 0
    /\ top_n = 1
    /\ selected = <<>>

IdleEv ==
    /\ bovada_odds = RZero
    /\ fair_odds = RZero
    /\ ev = FZero

(* fair_lines = {} *)
NoFairLines ==
    [raised |-> FALSE, keys |-> {}, h2h |-> <<>>, spreads |-> RZero, totals |-> RZero]

(* before the first call of calc_fair_line *)
NoCallYet ==
    /\ fair_lines = NoFairLines
    /\ prob_accum = <<>>
    /\ first_lines = NoFairLines
    /\ fair_calls = 0

IdleFair ==
    /\ game = [home_team |-> "", away_team |-> "", bookmakers |-> <<>>]
    /\ NoCallYet

IdleTrip ==
    /\ trip_odds = RZero
    /\ trip_prob = RZero
    /\ trip_american = [ok |-> TRUE, val |-> RZero]

(* the value of a call that has not returned *)
NoResult == [raised |-> FALSE, list |-> <<>>]

IdleTop ==
    /\ games_data = <<>>
    /\ bookmaker_aliases = <<>>
    /\ candidates = <<>>
    /\ top_bets = NoResult
    /\ message = <<>>

IdleFilter ==
    /\ raw_markets = <<>>
    /\ filtered_markets = NoResult

----------------------------------------------------------------------------
(* Bounds and input alphabets of the selector.                             *)

MaxCands == 3          \* longest candidate list drawn
MaxTopN == 4           \* largest top_n drawn

EVSet == {-1, 0, 1, 2}        \* candidate EVs (in units of one percent)
MinEdges == {0, 1, 2}         \* thresholds, so that ev = min_edge occurs
Descs == {"a", "b"}           \* the remaining fields of a candidate dict

(* A candidate dict.  id is the identity of the Python object (its place   *)
(* in the list passed in); dict equality does not see it.  fallback is     *)
(* TRUE when the dict has the key "fallback" (always with value True).     *)
Candidate == [id : 1..MaxCands, ev : EVSet, desc : Descs, fallback : BOOLEAN]

(* Candidate lists as get_top_bets builds them: bet_info has no "fallback" *)
(* key, and the list position is the object's identity.                    *)
CandidateLists ==
    UNION { { s \in [1..n -> Candidate] :
                \A i \in 1..n : s[i].id = i /\ s[i].fallback = FALSE } : n \in 0..MaxCands }

----------------------------------------------------------------------------
(* select_top_bets                                                         *)

(* Python dict equality: same keys, same values. *)
DictEq(a, b) == a.ev = b.ev /\ a.desc = b.desc /\ a.fallback = b.fallback

(* r in out *)
InListNever(r, out) == FALSE
InList(r, out) == \E i \in 1..Len(out) : DictEq(r, out[i])

Qualifies(r, edge) == r.ev >= edge

(* list.sort(key=ev, reverse=True): stable, descending.  An element is     *)
(* placed behind every element whose key is not smaller.                   *)
RECURSIVE InsertDescTiesFirst(_, _)
InsertDescTiesFirst(sorted, r) ==
    IF sorted = <<>> THEN <<r>>
    ELSE IF Head(sorted).ev > r.ev
         THEN <<Head(sorted)>> \o InsertDescTiesFirst(Tail(sorted), r)
         ELSE <<r>> \o sorted

RECURSIVE InsertDesc(_, _)
InsertDesc(sorted, r) ==
    IF sorted = <<>> THEN <<r>>
    ELSE IF Head(sorted).ev >= r.ev
         THEN <<Head(sorted)>> \o InsertDesc(Tail(sorted), r)
         ELSE <<r>> \o sorted

RECURSIVE SortByEvAsc(_)
SortByEvAsc(s) ==
    IF s = <<>> THEN <<>>
    ELSE LET rest == SortByEvAsc(SubSeq(s, 1, Len(s) - 1))
             r == s[Len(s)]
             k == Cardinality({i \in 1..Len(rest) : rest[i].ev <= r.ev})
         IN SubSeq(rest, 1, k) \o <<r>> \o SubSeq(rest, k + 1, Len(rest))

RECURSIVE SortByEvDesc(_)
SortByEvDesc(s) ==
    IF s = <<>> THEN <<>>
    ELSE InsertDesc(SortByEvDesc(SubSeq(s, 1, Len(s) - 1)), s[Len(s)])

FilterQualifying(rs, edge) == SelectSeq(rs, LAMBDA r : Qualifies(r, edge))

(* positive = [r for r in results if ev >= min_edge]; positive.sort(...) *)
PositiveUnsorted(rs, edge) == FilterQualifying(rs, edge)
Positive(rs, edge) == SortByEvDesc(FilterQualifying(rs, edge))

(* all_sorted = sorted(results, key=ev, reverse=True) *)
AllUnsorted(rs) == rs
AllSorted(rs) == SortByEvDesc(rs)

(* r = {**r, "fallback": True}: a tagged copy; the input dict is untouched *)
TagFallbackNoop(r) == r
TagFallback(r) == [r EXCEPT !.fallback = TRUE]

(* if len(out) >= top_n: break *)
QuotaReachedOffByOne(out, n) == Len(out) > n
QuotaReached(out, n) == Len(out) >= n

(* the for loop over all_sorted *)
RECURSIVE Fill(_, _, _, _)
Fill(out, rest, edge, n) ==
    IF rest = <<>> \/ QuotaReached(out, n) THEN out
    ELSE LET r == Head(rest) IN
         IF ~InList(r, out)
         THEN Fill(Append(out, IF r.ev < edge THEN TagFallback(r) ELSE r),
                   Tail(rest), edge, n)
         ELSE Fill(out, Tail(rest), edge, n)

select_top_bets(rs, edge, n) ==
    IF rs = <<>> THEN <<>>
    ELSE LET positive == Positive(rs, edge) IN
         IF Len(positive) >= n
         THEN SubSeq(positive, 1, n)
         ELSE SortByEvDesc(Fill(positive, AllSorted(rs), edge, n))

----------------------------------------------------------------------------
(* select_top_bets over objects.  store is the sequence of the dicts       *)
(* alive, a reference is a place in store, and a list holds references:    *)
(* the dicts of results are shared with positive, all_sorted and out.      *)

Referents(store, refs) == [k \in 1..Len(refs) |-> store[refs[k]]]

Keyed(store, refs) == [k \in 1..Len(refs) |-> [ref |-> refs[k], ev |-> store[refs[k]].ev]]

RefsOf(keyed) == [k \in 1..Len(keyed) |-> keyed[k].ref]

(* list.sort / sorted on a list of references *)
SortRefs(store, refs) == RefsOf(SortByEvDesc(Keyed(store, refs)))

(* r["fallback"] = True would write to the dict of the input *)
TagObjectInPlace(store, ref) ==
    [store |-> [store EXCEPT ![ref] = TagFallback(store[ref])], ref |-> ref]

(* r = {**r, "fallback": True}: a new dict, r is rebound to it *)
TagObject(store, ref) ==
    [store |-> Append(store, TagFallback(store[ref])), ref |-> Len(store) + 1]

(* the for loop over all_sorted; out and rest are lists of references *)
RECURSIVE FillRefs(_, _, _, _, _)
RECURSIVE AppendTagged(_, _, _, _, _)
FillRefs(store, out, rest, edge, n) ==
    IF rest = <<>> \/ QuotaReached(out, n) THEN [store |-> store, out |-> out]
    ELSE IF InList(store[Head(rest)], Referents(store, out))
         THEN FillRefs(store, out, Tail(rest), edge, n)
         ELSE IF store[Head(rest)].ev < edge
              THEN AppendTagged(TagObject(store, Head(rest)), out, Tail(rest), edge, n)
              ELSE FillRefs(store, Append(out, Head(rest)), Tail(rest), edge, n)

AppendTagged(tagged, out, rest, edge, n) ==
    FillRefs(tagged.store, Append(out, tagged.ref), rest, edge, n)

(* out.sort(...); return out -- and what the list passed in holds then *)
SortFilled(filled, refs) ==
    [returned |-> Referents(filled.store, SortRefs(filled.store, filled.out)),
     input |-> Referents(filled.store, refs)]

(* positive is a new list (a comprehension), all_sorted a new list         *)
(* (sorted), out a new list (a slice): results itself is never sorted,     *)
(* sliced or appended to.                                                  *)
FillFrom(rs, refs, positive, edge, n) ==
    IF Len(positive) >= n
    THEN [returned |-> Referents(rs, SubSeq(positive, 1, n)), input |-> rs]
    ELSE SortFilled(FillRefs(rs, positive, SortRefs(rs, refs), edge, n), refs)

SelectOnObjects(rs, edge, n) ==
    IF rs = <<>> THEN [returned |-> <<>>, input |-> rs]
    ELSE FillFrom(rs, [i \in 1..Len(rs) |-> i],
                  SortRefs(rs, SelectSeq([i \in 1..Len(rs) |-> i],
                                         LAMBDA i : Qualifies(rs[i], edge))),
                  edge, n)

----------------------------------------------------------------------------
(* Driver of the selector: a call, then the next call on the same list.    *)

InitSelect ==
    /\ pc = "select_call"
    /\ results \in CandidateLists
    /\ min_edge \in MinEdges
    /\ top_n \in 1..MaxTopN
    /\ selected = <<>>
    /\ IdleEv
    /\ IdleFair
    /\ IdleTrip
    /\ IdleTop
    /\ IdleFilter

SelectTopBets ==
    /\ pc = "select_call"
    /\ selected' = select_top_bets(results, min_edge, top_n)
    /\ results' = SelectOnObjects(results, min_edge, top_n).input
    /\ pc' = "select_done"
    /\ UNCHANGED <<min_edge, top_n, evVars, fairVars, tripVars, topVars, filterVars>>

(* the caller selects again from the same candidates with other arguments *)
SelectAgain ==
    /\ pc = "select_done"
    /\ \E e \in MinEdges, n \in 1..MaxTopN :
          /\ <<e, n>> # <<min_edge, top_n>>
          /\ min_edge' = e
          /\ top_n' = n
    /\ selected' = <<>>
    /\ pc' = "select_call"
    /\ UNCHANGED <<results, evVars, fairVars, tripVars, topVars, filterVars>>

NextSelect == SelectTopBets \/ SelectAgain

SpecSelect == InitSelect /\ [][NextSelect]_vars

----------------------------------------------------------------------------
(* Properties of select_top_bets.                                          *)

SelectDone == pc = "select_done"

NoFallbackKeyOnInput == \A k \in 1..Len(results) : ~results[k].fallback

(* number of input candidates with EV >= min_edge *)
NumQualifying == Cardinality({k \in 1..Len(results) : results[k].ev >= min_edge})

(* identities of the input candidates that the result holds *)
SelectedIds == {selected[i].id : i \in 1..Len(selected)}

(* every entry of the result is one input candidate, at most re-tagged,    *)
(* and no input candidate occurs twice                                     *)
SelectedAreDistinctInputs ==
    /\ \A i \in 1..Len(selected) :
          /\ selected[i].id \in 1..Len(results)
          /\ selected[i].ev = results[selected[i].id].ev
          /\ selected[i].desc = results[selected[i].id].desc
    /\ \A i, j \in 1..Len(selected) : selected[i].id = selected[j].id => i = j

(* C1: with no "fallback" key on input, an entry of the returned list is   *)
(* tagged fallback if and only if its EV is strictly below min_edge.       *)
C1_FallbackIffBelowMinEdge ==
    (SelectDone /\ NoFallbackKeyOnInput) =>
        \A i \in 1..Len(selected) :
            selected[i].fallback <=> (selected[i].ev < min_edge)

C1_Witness ==
    /\ SelectDone
    /\ NoFallbackKeyOnInput
    /\ \E i, j \in 1..Len(selected) :
          /\ selected[i].fallback /\ selected[i].ev < min_edge
          /\ ~selected[j].fallback /\ selected[j].ev >= min_edge

(* C2: the returned list never has more than top_n entries, on the         *)
(* sufficient-qualifiers path and on the fallback path.                    *)
C2_AtMostTopN == SelectDone => Len(selected) <= top_n

C2_Witness ==
    /\ SelectDone
    /\ NumQualifying < top_n
    /\ Len(results) > top_n
    /\ Len(selected) = top_n

(* C3: the returned list is ordered by EV, non-increasing.                 *)
C3_SortedByEvDesc ==
    SelectDone =>
        \A i \in 1..(Len(selected) - 1) : selected[i].ev >= selected[i + 1].ev

C3_Witness ==
    /\ SelectDone
    /\ Len(selected) >= 3
    /\ \E i \in 1..Len(selected) : selected[i].fallback
    /\ \E k \in 1..(Len(results) - 1) : results[k].ev < results[k + 1].ev
    /\ selected[1].ev > selected[Len(selected)].ev

(* C4: with at least top_n qualifying candidates the result is exactly the *)
(* top_n highest-EV qualifying candidates, none of them tagged fallback.   *)
C4_SufficientQualifiers ==
    (SelectDone /\ NumQualifying >= top_n) =>
        /\ Len(selected) = top_n
        /\ SelectedAreDistinctInputs
        /\ \A i \in 1..Len(selected) :
              selected[i].ev >= min_edge /\ ~selected[i].fallback
        /\ \A k \in 1..Len(results) :
              (results[k].ev >= min_edge /\ k \notin SelectedIds) =>
                  \A i \in 1..Len(selected) : results[k].ev <= selected[i].ev

C4_Witness ==
    /\ SelectDone
    /\ NumQualifying > top_n
    /\ Len(selected) = top_n
    /\ \E k \in 1..Len(results) :
          /\ results[k].ev >= min_edge
          /\ k \notin SelectedIds
          /\ results[k].ev < selected[Len(selected)].ev

(* C5: with fewer than top_n qualifying candidates the result holds every  *)
(* qualifying candidate, and no candidate left out has an EV strictly      *)
(* greater than the EV of a candidate in the result.                       *)
C5_FallbackFillsWithBest ==
    (SelectDone /\ NumQualifying < top_n) =>
        /\ SelectedAreDistinctInputs
        /\ \A k \in 1..Len(results) : results[k].ev >= min_edge => k \in SelectedIds
        /\ \A k \in 1..Len(results) :
              k \notin SelectedIds =>
                  \A i \in 1..Len(selected) : results[k].ev <= selected[i].ev

C5_Witness ==
    /\ SelectDone
    /\ NumQualifying < top_n
    /\ NumQualifying >= 1
    /\ \E k \in 1..Len(results) :
          /\ k \notin SelectedIds
          /\ results[k].ev < selected[Len(selected)].ev
    /\ \E i \in 1..Len(selected) : selected[i].fallback

(* C6: an input of at most top_n candidates is returned whole, each        *)
(* candidate exactly once, also when two candidates are equal as dicts;    *)
(* an empty input gives an empty result.                                   *)
C6_SmallInputReturnedWhole ==
    (SelectDone /\ Len(results) <= top_n) =>
        /\ Len(selected) = Len(results)
        /\ SelectedAreDistinctInputs
        /\ SelectedIds = 1..Len(results)
        /\ results = <<>> => selected = <<>>

C6_Witness ==
    /\ SelectDone
    /\ Len(results) <= top_n
    /\ Len(selected) = Len(results)
    /\ \E j, k \in 1..Len(results) :
          /\ j # k
          /\ DictEq(results[j], results[k])
          /\ results[j].ev < min_edge
    /\ \E k \in 1..Len(results) : results[k].ev >= min_edge

(* C16: two entries of the returned list with equal EV stand in the order  *)
(* their candidates had in the input list, on the sufficient-qualifiers    *)
(* path and on the fallback path.                                          *)
C16_TiesKeepInputOrder ==
    SelectDone =>
        \A i, j \in 1..Len(selected) :
            (i < j /\ selected[i].ev = selected[j].ev) => selected[i].id < selected[j].id

(* fallback path: a tie among the qualifiers and a tie across entries that *)
(* the fill loop appended, in a list that was not sorted on input          *)
C16_Witness ==
    /\ SelectDone
    /\ NumQualifying < top_n
    /\ \E i \in 1..(Len(selected) - 1) :
          /\ selected[i].ev = selected[i + 1].ev
          /\ selected[i].fallback /\ selected[i + 1].fallback
          /\ selected[i].id < selected[i + 1].id
    /\ \E k \in 1..(Len(results) - 1) : results[k].ev < results[k + 1].ev

----------------------------------------------------------------------------
(* Odds conversion and calc_ev                                             *)

(* EVEngine._american_to_prob *)
american_to_prob(odds) ==
    IF RPos(odds)
    THEN RDiv(RHundred, RAdd(odds, RHundred))
    ELSE RDiv(RAbs(odds), RAdd(RAbs(odds), RHundred))

(* EVEngine._american_to_prob on a float: odds is a dyadic rational n/d,   *)
(* odds + 100 and abs(odds) + 100 are exact, the quotient is rounded       *)
american_to_prob_f64(odds) ==
    IF RPos(odds)
    THEN FDivNat(100 * odds[2], odds[1] + 100 * odds[2])
    ELSE FDivNat(Abs(odds[1]), Abs(odds[1]) + 100 * odds[2])

(* profit_per_unit in calc_ev, exactly and as a float *)
ProfitPerUnitReal(b) ==
    IF RPos(b) THEN RDiv(b, RHundred) ELSE RDiv(RHundred, RAbs(b))

ProfitPerUnitInverted(b) ==
    IF RPos(b) THEN FDivNat(b[1], 100 * b[2]) ELSE FDivNat(Abs(b[1]), 100 * b[2])
ProfitPerUnit(b) ==
    IF RPos(b) THEN FDivNat(b[1], 100 * b[2]) ELSE FDivNat(100 * b[2], Abs(b[1]))

(* the formula of calc_ev over the reals *)
calc_ev_real(b, f) ==
    IF ~IsNumber(b) \/ ~IsNumber(f) THEN RZero
    ELSE IF RIsZero(b) \/ RIsZero(f) THEN RZero
    ELSE LET fair_prob == american_to_prob(f) IN
         IF RLe(fair_prob, RZero) \/ RLe(ROne, fair_prob) THEN RZero
         ELSE RSub(RMul(fair_prob, ProfitPerUnitReal(b)), RSub(ROne, fair_prob))

(* EVEngine.calc_ev, in float arithmetic *)
calc_ev(b, f) ==
    IF ~IsNumber(b) \/ ~IsNumber(f) THEN FZero
    ELSE IF RIsZero(b) \/ RIsZero(f) THEN FZero
    ELSE LET fair_prob == american_to_prob_f64(f) IN
         IF fair_prob.sign <= 0 \/ FGeOne(fair_prob) THEN FZero
         ELSE FSub(FMul(fair_prob, ProfitPerUnit(b)), FSub(FOne, fair_prob))

(* prices handed to calc_ev: integer American odds on both sides of the    *)
(* favourite/underdog boundary, prices inside (-100, 100), zero, and a     *)
(* value that is not a number                                              *)
BookOdds ==
    {Num(i) : i \in {-300, -200, -150, -110, -100, -50, 0, 50, 100, 110, 150, 200, 300}}
        \cup {NotANumber}

(* fair prices: the same, and fractional fair odds *)
FairOdds == BookOdds \cup {Rat(-225, 2), Rat(245, 2)}

InitEv ==
    /\ pc = "ev_call"
    /\ bovada_odds \in BookOdds
    /\ fair_odds \in FairOdds
    /\ ev = FZero
    /\ IdleSelect
    /\ IdleFair
    /\ IdleTrip
    /\ IdleTop
    /\ IdleFilter

CalcEv ==
    /\ pc = "ev_call"
    /\ ev' = calc_ev(bovada_odds, fair_odds)
    /\ pc' = "ev_done"
    /\ UNCHANGED <<bovada_odds, fair_odds, selectVars, fairVars, tripVars, topVars, filterVars>>

NextEv == CalcEv

SpecEv == InitEv /\ [][NextEv]_vars

----------------------------------------------------------------------------
(* Properties of calc_ev.                                                  *)

EvDone == pc = "ev_done"

(* both prices are numbers of magnitude at least 100 *)
AmericanOddsPair ==
    /\ IsNumber(bovada_odds) /\ IsNumber(fair_odds)
    /\ RLe(RHundred, RAbs(bovada_odds))
    /\ RLe(RHundred, RAbs(fair_odds))

(* |x| <= 2^k for a double x *)
FAbsAtMostTwoPow(x, k) ==
    \/ x.sign = 0
    \/ x.e + MantissaBits <= k
    \/ x.e + MantissaBits - 1 = k /\ BitLen(BSub(x.m, BShl(<<1>>, MantissaBits - 1))) = 0

(* C7 as stated: the sign of calc_ev(b, f) is the sign of prob(f) - prob(b)*)
(* and the value is zero exactly when the implied probabilities are equal. *)
C7_EvSignExactly ==
    (EvDone /\ AmericanOddsPair) =>
        LET pb == american_to_prob(bovada_odds)
            pf == american_to_prob(fair_odds)
        IN /\ ev.sign = 1 <=> RLt(pb, pf)
           /\ ev.sign = -1 <=> RLt(pf, pb)
           /\ ev.sign = 0 <=> (pb = pf)

(* C7 (amended): calc_ev(b, f) is positive whenever the implied            *)
(* probability of b is below that of f and negative whenever it is above;  *)
(* with equal implied probabilities the float result is zero only up to    *)
(* rounding (at most 2^-50 in magnitude), while the formula evaluated over *)
(* the reals has exactly the sign of prob(f) - prob(b).                    *)
C7_EvSignUpToRounding ==
    (EvDone /\ AmericanOddsPair) =>
        LET pb == american_to_prob(bovada_odds)
            pf == american_to_prob(fair_odds)
            exact == calc_ev_real(bovada_odds, fair_odds)
        IN /\ RLt(pb, pf) => ev.sign = 1
           /\ RLt(pf, pb) => ev.sign = -1
           /\ (pb = pf) => FAbsAtMostTwoPow(ev, -50)
           /\ RPos(exact) <=> RLt(pb, pf)
           /\ RNeg(exact) <=> RLt(pf, pb)
           /\ RIsZero(exact) <=> (pb = pf)

(* the spec's own price: calc_ev(-110, -110) is a positive rounding residue *)
C7_Witness ==
    /\ EvDone
    /\ bovada_odds = Num(-110)
    /\ fair_odds = Num(-110)
    /\ ev.sign = 1
    /\ RIsZero(calc_ev_real(bovada_odds, fair_odds))

----------------------------------------------------------------------------
(* calc_fair_line, in exact arithmetic.                                    *)

MaxQuotes == 4         \* outcome quotes per game record, over all bookmakers

(* _prob_to_american with the two branches split at prob > 0.5 *)
prob_to_american_strict_split(prob) ==
    IF RLt(Rat(1, 2), prob)
    THEN IF prob = ROne THEN [ok |-> FALSE, val |-> RZero]
         ELSE [ok |-> TRUE, val |-> RMul(RDiv(prob, RSub(ROne, prob)), Num(-100))]
    ELSE IF RIsZero(prob) THEN [ok |-> FALSE, val |-> RZero]
         ELSE [ok |-> TRUE, val |-> RSub(RDiv(RHundred, prob), RHundred)]

(* EVEngine._prob_to_american; ok = FALSE is the ZeroDivisionError that    *)
(* Python raises for the float division by 1 - prob = 0.0 or by prob = 0.0 *)
prob_to_american(prob) ==
    IF RLe(Rat(1, 2), prob)
    THEN IF prob = ROne THEN [ok |-> FALSE, val |-> RZero]
         ELSE [ok |-> TRUE, val |-> RMul(RDiv(prob, RSub(ROne, prob)), Num(-100))]
    ELSE IF RIsZero(prob) THEN [ok |-> FALSE, val |-> RZero]
         ELSE [ok |-> TRUE, val |-> RSub(RDiv(RHundred, prob), RHundred)]

(* outcome.get("name") or outcome.get("description") or "" *)
OutcomeName(o) == IF o.name # "" THEN o.name ELSE o.description

(* the outcomes of one bookmaker's h2h market that enter book_probs *)
EntersBookProbsUnnamed(o) ==
    /\ IsNumber(o.price)
    /\ RPos(american_to_prob(o.price))

EntersBookProbs(o) ==
    /\ IsNumber(o.price)
    /\ OutcomeName(o) # ""
    /\ RPos(american_to_prob(o.price))

(* book_probs: the (name, prob) pairs of one market *)
BookProbs(market) ==
    LET kept == SelectSeq(market.outcomes, EntersBookProbs)
    IN [i \in 1..Len(kept) |->
           [name |-> OutcomeName(kept[i]), prob |-> american_to_prob(kept[i].price)]]

ProbsOf(bp) == [i \in 1..Len(bp) |-> bp[i].prob]

(* norm_p = p / total_prob *)
NormalizeRaw(p, total_prob) == p
Normalize(p, total_prob) == RDiv(p, total_prob)

(* for name, p in book_probs: outcome_prob_accum.setdefault(name, []).append(norm_p) *)
RECURSIVE AccumProbs(_, _, _)
AccumProbs(accum, bp, total_prob) ==
    IF bp = <<>> THEN accum
    ELSE LET name == Head(bp).name
             norm_p == Normalize(Head(bp).prob, total_prob)
             list == IF name \in DOMAIN accum THEN accum[name] ELSE <<>>
         IN AccumProbs([n \in DOMAIN accum \cup {name} |->
                            IF n = name THEN Append(list, norm_p) ELSE accum[n]],
                       Tail(bp), total_prob)

(* one pass of the loop body over a market *)
AccumMarket(accum, market) ==
    IF market.key # "h2h" THEN accum
    ELSE LET bp == BookProbs(market)
             total_prob == RSum(ProbsOf(bp))
         IN IF bp = <<>> THEN accum
            ELSE IF RLe(total_prob, RZero) THEN accum
            ELSE AccumProbs(accum, bp, total_prob)

RECURSIVE AccumMarkets(_, _)
AccumMarkets(accum, markets) ==
    IF markets = <<>> THEN accum
    ELSE AccumMarkets(AccumMarket(accum, Head(markets)), Tail(markets))

RECURSIVE AccumBookmakers(_, _)
AccumBookmakers(accum, bookmakers) ==
    IF bookmakers = <<>> THEN accum
    ELSE AccumBookmakers(AccumMarkets(accum, Head(bookmakers).markets), Tail(bookmakers))

(* outcome_prob_accum: name -> list of normalized probabilities *)
OutcomeProbAccum(g) == AccumBookmakers(<<>>, g.bookmakers)

(* outcome_prob_accum: Dict[str, List[float]] = {} -- every call binds a   *)
(* new empty dict, whatever the previous call left in its own              *)
AccumAtStartReused(previous) == previous
AccumAtStart(previous) == <<>>

(* outcome_prob_accum at the end of the h2h loop of a call that follows a  *)
(* call which left previous                                                *)
AccumAfter(previous, g) == AccumBookmakers(AccumAtStart(previous), g.bookmakers)

(* averaged = {name: sum(probs) / len(probs)} *)
Averaged(accum) ==
    [n \in DOMAIN accum |-> RDiv(RSum(accum[n]), Num(Len(accum[n])))]

(* sum(d.values()) for a dict d with numeric values *)
RECURSIVE SumValues(_)
SumValues(d) ==
    IF DOMAIN d = {} THEN RZero
    ELSE LET n == CHOOSE x \in DOMAIN d : TRUE
         IN RAdd(d[n], SumValues([m \in DOMAIN d \ {n} |-> d[m]]))

(* fair_prob = p / total_avg *)
RenormalizeSkipped(p, total_avg) == p
Renormalize(p, total_avg) == RDiv(p, total_avg)

(* h2h_outcomes, each entry with the outcome of _prob_to_american *)
H2hOutcomes(averaged) ==
    LET total_avg == SumValues(averaged)
    IN IF RPos(total_avg)
       THEN [n \in DOMAIN averaged |->
                LET fair_prob == Renormalize(averaged[n], total_avg)
                    conv == prob_to_american(fair_prob)
                IN [fair_prob |-> fair_prob, fair_odds |-> conv.val, ok |-> conv.ok]]
       ELSE <<>>

(* isinstance(price, (int, float)) in the spreads/totals loop *)
NonzeroNumericPrice(o) == IsNumber(o.price) /\ ~RIsZero(o.price)
NumericPrice(o) == IsNumber(o.price)

PricesOfOutcomes(outcomes) ==
    LET kept == SelectSeq(outcomes, NumericPrice)
    IN [i \in 1..Len(kept) |-> kept[i].price]

RECURSIVE PricesOfMarkets(_, _)
PricesOfMarkets(markets, market_type) ==
    IF markets = <<>> THEN <<>>
    ELSE (IF Head(markets).key = market_type
          THEN PricesOfOutcomes(Head(markets).outcomes) ELSE <<>>)
             \o PricesOfMarkets(Tail(markets), market_type)

(* prices: every numeric price of the market type, over all bookmakers *)
RECURSIVE PricesOf(_, _)
PricesOf(bookmakers, market_type) ==
    IF bookmakers = <<>> THEN <<>>
    ELSE PricesOfMarkets(Head(bookmakers).markets, market_type)
             \o PricesOf(Tail(bookmakers), market_type)

(* sum(prices) / len(prices) *)
MeanPrice(prices) == RDiv(RSum(prices), Num(Len(prices)))

(* get_top_bets, spreads/totals branch:                                    *)
(* fair_odds_val = float(fair_lines.get(mkey, {}).get("fair_odds", 0))     *)
fair_odds_val(fl, mkey) ==
    IF mkey \notin fl.keys THEN RZero
    ELSE IF mkey = "spreads" THEN fl.spreads ELSE fl.totals

(* EVEngine.calc_fair_line from the filled outcome_prob_accum on.          *)
(* raised = TRUE: the call ended in the ZeroDivisionError of               *)
(* _prob_to_american and returned nothing.                                 *)
FairLinesOf(accum, g) ==
    LET h2h_outcomes == IF DOMAIN accum # {} THEN H2hOutcomes(Averaged(accum)) ELSE <<>>
        spread_prices == PricesOf(g.bookmakers, "spreads")
        total_prices == PricesOf(g.bookmakers, "totals")
    IN IF \E n \in DOMAIN h2h_outcomes : ~h2h_outcomes[n].ok
       THEN [NoFairLines EXCEPT !.raised = TRUE]
       ELSE [raised |-> FALSE,
             keys |-> (IF DOMAIN h2h_outcomes # {} THEN {"h2h"} ELSE {})
                         \cup (IF spread_prices # <<>> THEN {"spreads"} ELSE {})
                         \cup (IF total_prices # <<>> THEN {"totals"} ELSE {}),
             h2h |-> [n \in DOMAIN h2h_outcomes |->
                         [fair_prob |-> h2h_outcomes[n].fair_prob,
                          fair_odds |-> h2h_outcomes[n].fair_odds]],
             spreads |-> IF spread_prices # <<>> THEN MeanPrice(spread_prices) ELSE RZero,
             totals |-> IF total_prices # <<>> THEN MeanPrice(total_prices) ELSE RZero]

calc_fair_line(g) == FairLinesOf(OutcomeProbAccum(g), g)

----------------------------------------------------------------------------
(* The odds round trip, in exact arithmetic: _american_to_prob, then       *)
(* _prob_to_american on its result.                                        *)

MaxOdds == 160         \* largest magnitude of the odds converted

(* whole and half American odds, the values inside (-100, 100) included *)
TripOdds == {Rat(k, 2) : k \in (-2 * MaxOdds)..(2 * MaxOdds)}

InitTrip ==
    /\ pc = "trip_call"
    /\ trip_odds \in TripOdds
    /\ trip_prob = RZero
    /\ trip_american = [ok |-> TRUE, val |-> RZero]
    /\ IdleSelect
    /\ IdleEv
    /\ IdleFair
    /\ IdleTop
    /\ IdleFilter

AmericanToProb ==
    /\ pc = "trip_call"
    /\ trip_prob' = american_to_prob(trip_odds)
    /\ pc' = "trip_prob"
    /\ UNCHANGED <<trip_odds, trip_american, selectVars, evVars, fairVars, topVars, filterVars>>

ProbToAmerican ==
    /\ pc = "trip_prob"
    /\ trip_american' = prob_to_american(trip_prob)
    /\ pc' = "trip_done"
    /\ UNCHANGED <<trip_odds, trip_prob, selectVars, evVars, fairVars, topVars, filterVars>>

NextTrip == AmericanToProb \/ ProbToAmerican

SpecTrip == InitTrip /\ [][NextTrip]_vars

TripDone == pc = "trip_done"

(* C14: for American odds o with |o| >= 100 the round trip returns o,      *)
(* except for o = +100, whose probability 1/2 falls on the favourite side  *)
(* of the split and comes back as -100.                                    *)
C14_RoundTrip ==
    (TripDone /\ RLe(RHundred, RAbs(trip_odds))) =>
        /\ trip_american.ok
        /\ trip_odds # RHundred => trip_american.val = trip_odds
        /\ trip_odds = RHundred => trip_american.val = Num(-100)

C14_Witness ==
    /\ TripDone
    /\ trip_odds = RHundred
    /\ trip_prob = Rat(1, 2)
    /\ trip_american = [ok |-> TRUE, val |-> Num(-100)]

----------------------------------------------------------------------------
(* Game records handed to calc_fair_line.                                  *)

Titles == <<"Bovada", "FanDuel", "DraftKings", "BetMGM">>

Quote(name, description, price, point) ==
    [name |-> name, description |-> description, price |-> price, point |-> point]

(* moneyline outcomes: three outcome names, one of them given only as a    *)
(* description, an outcome without any name, a zero price and a price that *)
(* is not a number                                                         *)
H2hQuotes ==
    { Quote("A", "", Num(-200), 0),
      Quote("", "A", Num(100), 0),
      Quote("B", "", Num(100), 0),
      Quote("D", "", Num(300), 0),
      Quote("", "", Num(100), 0),
      Quote("B", "", Num(0), 0),
      Quote("B", "", NotANumber, 0) }

(* spread/total outcomes on two lines, with a zero price and a price that  *)
(* is not a number                                                         *)
LineQuotes ==
    { Quote("Over", "", Num(-110), 1),
      Quote("Over", "", Num(150), 2),
      Quote("Under", "", Num(0), 2),
      Quote("Under", "", NotANumber, 1) }

(* how many outcomes each bookmaker of a game quotes: every bookmaker      *)
(* quotes at least one, and the game holds at most budget quotes          *)
RECURSIVE Shapes(_)
Shapes(budget) ==
    {<<>>} \cup
    UNION { LET rests == Shapes(budget - n)
            IN { <<n>> \o rest : rest \in rests } :
            n \in 1..budget }

RECURSIVE SumSeq(_)
SumSeq(s) == IF s = <<>> THEN 0 ELSE Head(s) + SumSeq(Tail(s))

(* the game record whose bookmaker i has one market with key ks[i] and the *)
(* next shape[i] outcomes of the list flat                                 *)
BuildGame(shape, flat, ks) ==
    [home_team |-> "Home", away_team |-> "Away",
     bookmakers |-> [i \in 1..Len(shape) |->
         [title |-> Titles[((i - 1) % Len(Titles)) + 1],
          markets |-> << [key |-> ks[i],
                          outcomes |-> [k \in 1..shape[i] |->
                              flat[SumSeq(SubSeq(shape, 1, i - 1)) + k]]] >>]]]

(* game is a record of at most budget quotes whose markets use the given   *)
(* keys and outcomes                                                       *)
GameDrawnWithin(budget, keys, quotes) ==
    \E shape \in Shapes(budget) :
        \E flat \in [1..SumSeq(shape) -> quotes], ks \in [1..Len(shape) -> keys] :
            game = BuildGame(shape, flat, ks)

GameDrawnFrom(keys, quotes) == GameDrawnWithin(MaxQuotes, keys, quotes)

MaxMixedQuotes == 3    \* outcome quotes per game record with mixed market keys

(* the market keys of a provider record: the three supported ones and one  *)
(* the engine does not know                                                *)
MarketKeys == {"h2h", "spreads", "totals", "outrights"}

(* outcomes placed under any of the keys: two named prices, a price        *)
(* without a name, a zero price and a price that is not a number           *)
MixedQuotes ==
    { Quote("A", "", Num(-200), 1),
      Quote("B", "", Num(150), 1),
      Quote("", "", Num(100), 1),
      Quote("B", "", Num(0), 2),
      Quote("B", "", NotANumber, 2) }

InitFairMixed ==
    /\ pc = "fair_call"
    /\ GameDrawnWithin(MaxMixedQuotes, MarketKeys, MixedQuotes)
    /\ NoCallYet
    /\ IdleSelect
    /\ IdleEv
    /\ IdleTrip
    /\ IdleTop
    /\ IdleFilter

InitFairH2h ==
    /\ pc = "fair_call"
    /\ GameDrawnFrom({"h2h"}, H2hQuotes)
    /\ NoCallYet
    /\ IdleSelect
    /\ IdleEv
    /\ IdleTrip
    /\ IdleTop
    /\ IdleFilter

InitFairLines ==
    /\ pc = "fair_call"
    /\ GameDrawnFrom({"spreads", "totals"}, LineQuotes)
    /\ NoCallYet
    /\ IdleSelect
    /\ IdleEv
    /\ IdleTrip
    /\ IdleTop
    /\ IdleFilter

CalcFairLine ==
    /\ pc = "fair_call"
    /\ fair_lines' = calc_fair_line(game)
    /\ fair_calls' = fair_calls + 1
    /\ pc' = "fair_done"
    /\ UNCHANGED <<game, prob_accum, first_lines, selectVars, evVars, tripVars, topVars, filterVars>>

NextFair == CalcFairLine

SpecFairH2h == InitFairH2h /\ [][NextFair]_vars

SpecFairLines == InitFairLines /\ [][NextFair]_vars

SpecFairMixed == InitFairMixed /\ [][NextFair]_vars

----------------------------------------------------------------------------
(* Repeated calls of calc_fair_line on one engine: a call on game, then    *)
(* possibly a call on another record, then a call on game again.           *)

MaxRepeatQuotes == 2   \* outcome quotes of the game record called twice

(* the records of the calls in between: a two-way moneyline at one         *)
(* bookmaker, and a moneyline and a spread at two bookmakers               *)
OtherGames ==
    { BuildGame(<<2>>, << Quote("A", "", Num(-200), 1), Quote("B", "", Num(150), 1) >>,
                <<"h2h">>),
      BuildGame(<<2, 1>>, << Quote("A", "", Num(-200), 1), Quote("D", "", Num(300), 1),
                             Quote("Over", "", Num(-110), 1) >>,
                <<"h2h", "spreads">>) }

InitFairRepeat ==
    /\ pc = "repeat_first"
    /\ GameDrawnWithin(MaxRepeatQuotes, MarketKeys, MixedQuotes)
    /\ NoCallYet
    /\ IdleSelect
    /\ IdleEv
    /\ IdleTrip
    /\ IdleTop
    /\ IdleFilter

FirstCall ==
    /\ pc = "repeat_first"
    /\ \E accum \in {AccumAfter(prob_accum, game)} :
          /\ prob_accum' = accum
          /\ \E lines \in {FairLinesOf(accum, game)} :
                fair_lines' = lines /\ first_lines' = lines
    /\ fair_calls' = fair_calls + 1
    /\ pc' = "repeat_between"
    /\ UNCHANGED <<game, selectVars, evVars, tripVars, topVars, filterVars>>

OtherCall ==
    /\ pc = "repeat_between"
    /\ \E g \in OtherGames :
          \E accum \in {AccumAfter(prob_accum, g)} :
             /\ prob_accum' = accum
             /\ fair_lines' = FairLinesOf(accum, g)
    /\ fair_calls' = fair_calls + 1
    /\ pc' = "repeat_second"
    /\ UNCHANGED <<game, first_lines, selectVars, evVars, tripVars, topVars, filterVars>>

SecondCall ==
    /\ pc \in {"repeat_between", "repeat_second"}
    /\ \E accum \in {AccumAfter(prob_accum, game)} :
          /\ prob_accum' = accum
          /\ fair_lines' = FairLinesOf(accum, game)
    /\ fair_calls' = fair_calls + 1
    /\ pc' = "repeat_done"
    /\ UNCHANGED <<game, first_lines, selectVars, evVars, tripVars, topVars, filterVars>>

NextFairRepeat == FirstCall \/ OtherCall \/ SecondCall

SpecFairRepeat == InitFairRepeat /\ [][NextFairRepeat]_vars

RepeatDone == pc = "repeat_done"

----------------------------------------------------------------------------
(* Properties of calc_fair_line.                                           *)

FairDone == pc = "fair_done"

(* positions <<bookmaker, market, outcome>> of the game record *)
QuotePositions ==
    UNION { UNION { { <<i, j, k>> :
                        k \in 1..Len(game.bookmakers[i].markets[j].outcomes) } :
                    j \in 1..Len(game.bookmakers[i].markets) } :
            i \in 1..Len(game.bookmakers) }

MarketAt(pos) == game.bookmakers[pos[1]].markets[pos[2]]
QuoteAt(pos) == MarketAt(pos).outcomes[pos[3]]

(* the outcome names bookmaker i contributes to the moneyline *)
H2hNamesOf(i) ==
    { OutcomeName(QuoteAt(pos)) :
        pos \in { q \in QuotePositions :
                    /\ q[1] = i
                    /\ MarketAt(q).key = "h2h"
                    /\ IsNumber(QuoteAt(q).price)
                    /\ ~RIsZero(QuoteAt(q).price)
                    /\ OutcomeName(QuoteAt(q)) # "" } }

H2hNames == UNION { H2hNamesOf(i) : i \in 1..Len(game.bookmakers) }

FairProbs == [n \in DOMAIN fair_lines.h2h |-> fair_lines.h2h[n].fair_prob]

(* C8: whenever calc_fair_line emits a moneyline entry, the fair_prob      *)
(* values of its outcome names sum to exactly 1, also when the bookmakers  *)
(* quote different outcome subsets.                                        *)
C8_FairProbsSumToOne ==
    (FairDone /\ "h2h" \in fair_lines.keys) => SumValues(FairProbs) = ROne

C8_Witness ==
    /\ FairDone
    /\ "h2h" \in fair_lines.keys
    /\ Cardinality(DOMAIN fair_lines.h2h) = 3
    /\ \E i, j \in 1..Len(game.bookmakers) :
          /\ Cardinality(H2hNamesOf(i)) = 2
          /\ Cardinality(H2hNamesOf(j)) = 2
          /\ H2hNamesOf(i) # H2hNamesOf(j)

(* C9: calc_fair_line does not fail on a game whose moneyline yields a     *)
(* fair probability of exactly 1 (a single named outcome over all          *)
(* bookmakers): the outcome is left out of the fair line and no error is   *)
(* raised.                                                                 *)
C9_SingleOutcomeOmittedWithoutError ==
    (FairDone /\ Cardinality(H2hNames) = 1) =>
        /\ ~fair_lines.raised
        /\ H2hNames \cap DOMAIN fair_lines.h2h = {}

(* the quotes bookmaker i contributes to the moneyline *)
H2hPositionsOf(i) ==
    { q \in QuotePositions :
        /\ q[1] = i
        /\ MarketAt(q).key = "h2h"
        /\ IsNumber(QuoteAt(q).price)
        /\ ~RIsZero(QuoteAt(q).price)
        /\ OutcomeName(QuoteAt(q)) # "" }

(* the bookmakers contributing to the moneyline *)
H2hBooks == {i \in 1..Len(game.bookmakers) : H2hNamesOf(i) # {}}

RECURSIVE SumOfImpliedProbs(_)
SumOfImpliedProbs(positions) ==
    IF positions = {} THEN RZero
    ELSE LET pos == CHOOSE q \in positions : TRUE
         IN RAdd(american_to_prob(QuoteAt(pos).price),
                 SumOfImpliedProbs(positions \ {pos}))

(* bookmaker i's implied probability of outcome n (quoted once by i)       *)
ImpliedProbOf(i, n) ==
    LET pos == CHOOSE q \in H2hPositionsOf(i) : OutcomeName(QuoteAt(q)) = n
    IN american_to_prob(QuoteAt(pos).price)

(* the same, divided by the bookmaker's own overround sum                  *)
DeviggedProbOf(i, n) == RDiv(ImpliedProbOf(i, n), SumOfImpliedProbs(H2hPositionsOf(i)))

RECURSIVE SumOverBooks(_, _, _)
SumOverBooks(P(_, _), books, n) ==
    IF books = {} THEN RZero
    ELSE LET i == CHOOSE b \in books : TRUE
         IN RAdd(P(i, n), SumOverBooks(P, books \ {i}, n))

(* every contributing bookmaker quotes the same outcome names, each once   *)
SameNamesEverywhere ==
    /\ \A i, j \in H2hBooks : H2hNamesOf(i) = H2hNamesOf(j)
    /\ \A i \in H2hBooks : Cardinality(H2hPositionsOf(i)) = Cardinality(H2hNamesOf(i))

(* C13: when every contributing bookmaker quotes the same outcome names    *)
(* (each name once), the fair_prob of an outcome is the arithmetic mean    *)
(* over the bookmakers of the de-vigged probability, i.e. the implied      *)
(* probability divided by the bookmaker's own overround sum; the final     *)
(* renormalization does not change that mean.                              *)
C13_FairProbIsMeanOfDevigged ==
    (FairDone /\ "h2h" \in fair_lines.keys /\ SameNamesEverywhere) =>
        /\ DOMAIN fair_lines.h2h = H2hNames
        /\ \A n \in H2hNames :
              /\ RMul(fair_lines.h2h[n].fair_prob, Num(Cardinality(H2hBooks)))
                    = SumOverBooks(DeviggedProbOf, H2hBooks, n)
              /\ fair_lines.h2h[n].fair_prob = Averaged(OutcomeProbAccum(game))[n]

(* two bookmakers with different overrounds on the same two names, where   *)
(* the mean of the raw implied probabilities is another number             *)
C13_Witness ==
    /\ FairDone
    /\ "h2h" \in fair_lines.keys
    /\ SameNamesEverywhere
    /\ Cardinality(H2hBooks) = 2
    /\ Cardinality(H2hNames) = 2
    /\ \E i, j \in H2hBooks :
          SumOfImpliedProbs(H2hPositionsOf(i)) # SumOfImpliedProbs(H2hPositionsOf(j))
    /\ \E n \in H2hNames :
          RMul(fair_lines.h2h[n].fair_prob, Num(Cardinality(H2hBooks)))
              # SumOverBooks(ImpliedProbOf, H2hBooks, n)

(* numeric quotes of a market type, and those on one line *)
PricedPositions(market_type) ==
    { pos \in QuotePositions :
        MarketAt(pos).key = market_type /\ IsNumber(QuoteAt(pos).price) }

PricedPositionsAtLine(market_type, line) ==
    { pos \in PricedPositions(market_type) : QuoteAt(pos).point = line }

RECURSIVE SumOfPrices(_)
SumOfPrices(positions) ==
    IF positions = {} THEN RZero
    ELSE LET pos == CHOOSE q \in positions : TRUE
         IN RAdd(QuoteAt(pos).price, SumOfPrices(positions \ {pos}))

(* fair is the arithmetic mean of the prices at the positions *)
IsMeanOf(fair, positions) ==
    RMul(fair, Num(Cardinality(positions))) = SumOfPrices(positions)

LineMarkets == {"spreads", "totals"}

(* C10 as stated: the fair price of a spread/total outcome is the mean of  *)
(* the prices quoted in the same market on the same line.                  *)
C10_FairPriceIsMeanOfSameLine ==
    FairDone =>
        \A t \in LineMarkets : \A pos \in PricedPositions(t) :
            /\ t \in fair_lines.keys
            /\ IsMeanOf(fair_odds_val(fair_lines, t),
                        PricedPositionsAtLine(t, QuoteAt(pos).point))

(* C10 (amended): the fair price of a spread or total market is the mean   *)
(* of every numeric price (zero included) of every outcome of that market  *)
(* type over all bookmakers, whatever its line and side; the market type   *)
(* has a fair price exactly when such a price exists.                      *)
C10_FairPriceIsMeanOfAllPrices ==
    FairDone =>
        /\ ~fair_lines.raised
        /\ \A t \in LineMarkets :
              /\ t \in fair_lines.keys <=> PricedPositions(t) # {}
              /\ t \in fair_lines.keys =>
                    IsMeanOf(fair_odds_val(fair_lines, t), PricedPositions(t))

C10_Witness ==
    /\ FairDone
    /\ "totals" \in fair_lines.keys
    /\ \E p, q \in PricedPositions("totals") :
          /\ p[1] # q[1]
          /\ QuoteAt(p).point # QuoteAt(q).point
          /\ ~IsMeanOf(fair_lines.totals, PricedPositionsAtLine("totals", QuoteAt(p).point))
          /\ RIsZero(QuoteAt(q).price)

----------------------------------------------------------------------------
(* EVEngine.get_top_bets, in exact arithmetic, and format_bet_lines.       *)
(* A bookmaker title is a sequence of characters, so that lower-casing and *)
(* the substring test of the alias match are computed.                     *)

UpperCase == <<"A", "B", "C", "D", "E", "F", "G", "H", "I", "J", "K", "L", "M",
               "N", "O", "P", "Q", "R", "S", "T", "U", "V", "W", "X", "Y", "Z">>
LowerCase == <<"a", "b", "c", "d", "e", "f", "g", "h", "i", "j", "k", "l", "m",
               "n", "o", "p", "q", "r", "s", "t", "u", "v", "w", "x", "y", "z">>

(* str.lower() *)
LowerChar(c) ==
    IF \E i \in 1..Len(UpperCase) : UpperCase[i] = c
    THEN LowerCase[CHOOSE i \in 1..Len(UpperCase) : UpperCase[i] = c]
    ELSE c

Lower(str) == [i \in 1..Len(str) |-> LowerChar(str[i])]

(* alias in name *)
Contains(alias, name) ==
    \E k \in 0..(Len(name) - Len(alias)) : SubSeq(name, k + 1, k + Len(alias)) = alias

(* ["bovada", "bodog"] *)
DefaultAliases == << <<"b", "o", "v", "a", "d", "a">>, <<"b", "o", "d", "o", "g">> >>

(* if not bookmaker_aliases: bookmaker_aliases = ["bovada", "bodog"] *)
EffectiveAliases(aliases) == IF aliases = <<>> THEN DefaultAliases ELSE aliases

(* any(alias in name for alias in bookmaker_aliases), name the lower-cased title *)
TitleMatchesAny(title, aliases) == TRUE
TitleMatches(title, aliases) ==
    \E a \in 1..Len(aliases) : Contains(aliases[a], Lower(title))

SupportedMarkets == {"h2h", "spreads", "totals"}

(* not (not isinstance(price, (int, float)) or price == 0) *)
UsablePriceAllowsZero(price) == IsNumber(price)
UsablePrice(price) == IsNumber(price) /\ ~RIsZero(price)

(* fair_odds_val for one outcome; 0 stands for None and for 0.0, which     *)
(* 'if not fair_odds_val' treats alike                                     *)
FairOddsFor(fl, mkey, o) ==
    IF mkey = "h2h"
    THEN IF OutcomeName(o) \in DOMAIN fl.h2h
         THEN fl.h2h[OutcomeName(o)].fair_odds
         ELSE RZero
    ELSE fair_odds_val(fl, mkey)

(* bet_info; game stands for home_team + " vs " + away_team, desc for      *)
(* f"{mkey} | {outcome_name}"                                              *)
BetInfo(g, mkey, o, fair) ==
    LET value == calc_ev_real(o.price, fair)
    IN [game |-> <<g.home_team, g.away_team>>,
        market |-> mkey,
        outcome |-> OutcomeName(o),
        bovada_odds |-> o.price,
        fair_odds |-> fair,
        ev |-> value,
        edge_pct |-> RMul(value, RHundred),
        desc |-> <<mkey, OutcomeName(o)>>]

(* lists[1] \o ... \o lists[n] *)
RECURSIVE Concat(_)
Concat(lists) == IF lists = <<>> THEN <<>> ELSE Head(lists) \o Concat(Tail(lists))

(* the body of the outcome loop: nothing, or one candidate.  origin is the *)
(* place <<game, bookmaker, market, outcome>> of the outcome in the batch; *)
(* it is not a field of the dict.                                          *)
ScanOutcome(g, fl, mkey, o, origin) ==
    IF ~UsablePrice(o.price) THEN <<>>
    ELSE LET fair == FairOddsFor(fl, mkey, o)
         IN IF RIsZero(fair) THEN <<>>
            ELSE << [bet |-> BetInfo(g, mkey, o, fair), origin |-> origin] >>

ScanMarket(g, fl, market, gi, bi, mi) ==
    IF market.key \notin SupportedMarkets THEN <<>>
    ELSE Concat([oi \in 1..Len(market.outcomes) |->
                    ScanOutcome(g, fl, market.key, market.outcomes[oi], <<gi, bi, mi, oi>>)])

ScanBookmaker(g, fl, bookmaker, aliases, gi, bi) ==
    IF ~TitleMatches(bookmaker.title, aliases) THEN <<>>
    ELSE Concat([mi \in 1..Len(bookmaker.markets) |->
                    ScanMarket(g, fl, bookmaker.markets[mi], gi, bi, mi)])

ScanGame(g, fl, aliases, gi) ==
    Concat([bi \in 1..Len(g.bookmakers) |->
               ScanBookmaker(g, fl, g.bookmakers[bi], aliases, gi, bi)])

(* the loop over games_data: fair_lines of every game, and candidates.     *)
(* raised: some game ends calc_fair_line in its ZeroDivisionError, which   *)
(* get_top_bets does not catch; no list is handed to select_top_bets then. *)
Scan(games, aliases) ==
    LET lines == [gi \in 1..Len(games) |-> calc_fair_line(games[gi])]
        raised == \E gi \in 1..Len(games) : lines[gi].raised
    IN [raised |-> raised,
        candidates |->
            IF raised THEN <<>>
            ELSE Concat([gi \in 1..Len(games) |->
                            ScanGame(games[gi], lines[gi], EffectiveAliases(aliases), gi)])]

(* select_top_bets compares EVs only with each other and with min_edge.    *)
(* The EVs are exact rationals here; each is handed over as its rank among *)
(* the EVs of the list, and min_edge as the number of EVs below it, which  *)
(* keeps every comparison.                                                 *)
EvRank(x, cands) ==
    Cardinality({v \in {cands[i].bet.ev : i \in 1..Len(cands)} : RLt(v, x)})

Ranked(cands) ==
    [i \in 1..Len(cands) |->
        [id |-> i, ev |-> EvRank(cands[i].bet.ev, cands), desc |-> cands[i].bet,
         fallback |-> FALSE]]

(* the candidates that the ranked selection chosen stands for *)
Unranked(cands, chosen) ==
    [k \in 1..Len(chosen) |->
        [bet |-> cands[chosen[k].id].bet,
         origin |-> cands[chosen[k].id].origin,
         fallback |-> chosen[k].fallback]]

(* selected = select_top_bets(candidates, min_edge=min_edge, top_n=n) *)
SelectFrom(cands, edge, n) ==
    Unranked(cands, select_top_bets(Ranked(cands), EvRank(edge, cands), n))

(* the end of get_top_bets: the selection from the scanned candidates *)
SelectScanned(scan, n, edge) ==
    [raised |-> scan.raised,
     candidates |-> scan.candidates,
     list |-> IF scan.raised THEN <<>> ELSE SelectFrom(scan.candidates, edge, n)]

(* EVEngine.get_top_bets: the candidates it builds and what it returns *)
get_top_bets(games, n, edge, aliases) == SelectScanned(Scan(games, aliases), n, edge)

(* round(x, 2), half to even, of an exact number *)
Round2(x) ==
    LET scaled == x[1] * 100
        q == scaled \div x[2]
        twice == 2 * (scaled % x[2])
        up == twice > x[2] \/ (twice = x[2] /\ q % 2 = 1)
    IN Rat(IF up THEN q + 1 ELSE q, 100)

(* prefix and suffix of a line; the prefix stands for the warning sign *)
FallbackPrefixNever(b) == ""
FallbackPrefix(b) == IF b.fallback THEN "(!) " ELSE ""
FallbackSuffix(b) == IF b.fallback THEN " (Low EV fallback)" ELSE ""

(* format_bet_lines: the lines of the text, each with the pieces of its    *)
(* f-string                                                                *)
format_bet_lines(bets) ==
    [i \in 1..Len(bets) |->
        [prefix |-> FallbackPrefix(bets[i]),
         number |-> i,
         game |-> bets[i].bet.game,
         market |-> bets[i].bet.market,
         outcome |-> bets[i].bet.outcome,
         bovada |-> bets[i].bet.bovada_odds,
         fair |-> Round2(bets[i].bet.fair_odds),
         ev |-> Round2(bets[i].bet.edge_pct),
         suffix |-> FallbackSuffix(bets[i])]]

----------------------------------------------------------------------------
(* Batches handed to get_top_bets, and the handler that calls it.          *)

MaxBatchQuotes == 3    \* outcome quotes per batch, over all games

(* the markets of a batch.  In the first game a bookmaker with a default   *)
(* alias as title quotes a moneyline and a market the engine does not      *)
(* know, a bookmaker with the other default alias inside a longer title in *)
(* capitals quotes totals, and a bookmaker matching no default alias       *)
(* quotes the moneyline; the second game has one moneyline.                *)
BatchSlots ==
    << [game |-> 1, title |-> <<"B", "o", "v", "a", "d", "a">>, key |-> "h2h"],
       [game |-> 1, title |-> <<"B", "o", "v", "a", "d", "a">>, key |-> "outrights"],
       [game |-> 1, title |-> <<"M", "y", " ", "B", "O", "D", "O", "G">>, key |-> "totals"],
       [game |-> 1, title |-> <<"F", "a", "n", "D", "u", "e", "l">>, key |-> "h2h"],
       [game |-> 2, title |-> <<"B", "o", "v", "a", "d", "a">>, key |-> "h2h"] >>

(* outcomes: two named prices, a price without a name, a zero price and a  *)
(* price that is not a number                                              *)
BatchQuotes ==
    { Quote("A", "", Num(-200), 0),
      Quote("B", "", Num(150), 0),
      Quote("", "", Num(100), 0),
      Quote("B", "", Num(0), 0),
      Quote("B", "", NotANumber, 0) }

Teams == << <<"Lakers", "Celtics">>, <<"Knicks", "Heat">> >>

SlotIndexes == [k \in 1..Len(BatchSlots) |-> k]

MapSeq(F(_), seq) == [i \in 1..Len(seq) |-> F(seq[i])]

(* the batch in which market k of BatchSlots holds the next counts[k]      *)
(* outcomes of the list flat; a market without outcomes, a bookmaker       *)
(* without markets and a game without bookmakers are not in the batch      *)
BatchOf(counts, flat) ==
    LET Filled(k) == counts[k] > 0
        SameBook(j, k) ==
            BatchSlots[j].game = BatchSlots[k].game /\ BatchSlots[j].title = BatchSlots[k].title
        FirstOfBook(k) == Filled(k) /\ ~\E j \in 1..(k - 1) : Filled(j) /\ SameBook(j, k)
        MarketOf(k) ==
            [key |-> BatchSlots[k].key,
             outcomes |-> [o \in 1..counts[k] |->
                 flat[SumSeq(SubSeq(counts, 1, k - 1)) + o]]]
        BookOf(k) ==
            [title |-> BatchSlots[k].title,
             markets |-> MapSeq(MarketOf,
                                SelectSeq(SlotIndexes, LAMBDA j : Filled(j) /\ SameBook(j, k)))]
        BooksOf(gi) ==
            MapSeq(BookOf,
                   SelectSeq(SlotIndexes, LAMBDA k : FirstOfBook(k) /\ BatchSlots[k].game = gi))
        GameOf(gi) ==
            [home_team |-> Teams[gi][1], away_team |-> Teams[gi][2], bookmakers |-> BooksOf(gi)]
    IN MapSeq(GameOf,
              SelectSeq([gi \in 1..Len(Teams) |-> gi],
                        LAMBDA gi : \E k \in 1..Len(BatchSlots) :
                                        Filled(k) /\ BatchSlots[k].game = gi))

(* arguments of the call: n, min_edge, bookmaker_aliases (empty: default)  *)
TopArguments ==
    { [n |-> 3, min_edge |-> Rat(1, 50), aliases |-> <<>>],
      [n |-> 1, min_edge |-> Rat(1, 10),
       aliases |-> << <<"f", "a", "n", "d", "u", "e", "l">> >>] }

InitTop ==
    /\ pc = "top_call"
    /\ \E counts \in [1..Len(BatchSlots) -> 0..MaxBatchQuotes] :
          /\ SumSeq(counts) <= MaxBatchQuotes
          /\ \E flat \in [1..SumSeq(counts) -> BatchQuotes] :
                games_data = BatchOf(counts, flat)
    /\ bookmaker_aliases = <<>>
    /\ candidates = <<>>
    /\ top_bets = NoResult
    /\ message = <<>>
    /\ IdleSelect
    /\ IdleEv
    /\ IdleFair
    /\ IdleTrip
    /\ IdleFilter

(* cmd_test_ev / the daily job: read MIN_EDGE, TOP_BETS and BOOKS, call    *)
(* get_top_bets, and format the selection when there is one.  candidates   *)
(* is the list handed to select_top_bets (none when the scan raised).      *)
TestEv ==
    /\ pc = "top_call"
    /\ \E arg \in TopArguments :
          \E result \in {get_top_bets(games_data, arg.n, arg.min_edge, arg.aliases)} :
             /\ min_edge' = arg.min_edge
             /\ top_n' = arg.n
             /\ bookmaker_aliases' = arg.aliases
             /\ candidates' = result.candidates
             /\ top_bets' = [raised |-> result.raised, list |-> result.list]
             /\ message' = IF result.raised \/ result.list = <<>> THEN <<>>
                           ELSE format_bet_lines(result.list)
    /\ pc' = "top_done"
    /\ UNCHANGED <<games_data, results, selected, evVars, fairVars, tripVars, filterVars>>

NextTop == TestEv

SpecTop == InitTop /\ [][NextTop]_vars

----------------------------------------------------------------------------
(* Properties of get_top_bets and format_bet_lines.                        *)

TopDone == pc = "top_done"

BatchBookAt(origin) == games_data[origin[1]].bookmakers[origin[2]]
BatchMarketAt(origin) == BatchBookAt(origin).markets[origin[3]]
BatchQuoteAt(origin) == BatchMarketAt(origin).outcomes[origin[4]]

(* places <<game, bookmaker, market, outcome>> of the batch *)
BatchPositions ==
    UNION { UNION { UNION { { <<gi, bi, mi, oi>> :
                oi \in 1..Len(games_data[gi].bookmakers[bi].markets[mi].outcomes) } :
            mi \in 1..Len(games_data[gi].bookmakers[bi].markets) } :
        bi \in 1..Len(games_data[gi].bookmakers) } :
    gi \in 1..Len(games_data) }

(* the bookmaker's lower-cased title contains one of the aliases in force *)
BookHasAlias(origin) ==
    LET aliases == IF bookmaker_aliases = <<>> THEN DefaultAliases ELSE bookmaker_aliases
    IN \E a \in 1..Len(aliases) : Contains(aliases[a], Lower(BatchBookAt(origin).title))

CandidateOrigins == {candidates[i].origin : i \in 1..Len(candidates)}

(* C11: every candidate handed to select_top_bets has a nonzero bookmaker  *)
(* price and a nonzero fair price whose implied probability lies strictly  *)
(* between 0 and 1; it comes from an outcome with a nonzero numeric price  *)
(* for which the game's fair line has a price.                             *)
C11_CandidatesArePriced ==
    TopDone =>
        \A i \in 1..Len(candidates) :
            LET c == candidates[i]
                quote == BatchQuoteAt(c.origin)
                mkey == BatchMarketAt(c.origin).key
                fl == calc_fair_line(games_data[c.origin[1]])
                p == american_to_prob(c.bet.fair_odds)
            IN /\ IsNumber(c.bet.bovada_odds) /\ ~RIsZero(c.bet.bovada_odds)
               /\ IsNumber(c.bet.fair_odds) /\ ~RIsZero(c.bet.fair_odds)
               /\ RLt(RZero, p) /\ RLt(p, ROne)
               /\ c.bet.bovada_odds = quote.price
               /\ mkey \in fl.keys
               /\ IF mkey = "h2h"
                  THEN /\ OutcomeName(quote) \in DOMAIN fl.h2h
                       /\ c.bet.fair_odds = fl.h2h[OutcomeName(quote)].fair_odds
                  ELSE c.bet.fair_odds = fair_odds_val(fl, mkey)

(* candidates were built while the scanned moneyline also held a zero      *)
(* price and a priced outcome without a name, which has no fair price      *)
C11_Witness ==
    /\ TopDone
    /\ candidates # <<>>
    /\ \E p \in BatchPositions :
          /\ BookHasAlias(p)
          /\ BatchMarketAt(p).key = "h2h"
          /\ p \notin CandidateOrigins
          /\ \/ RIsZero(BatchQuoteAt(p).price)
             \/ IsNumber(BatchQuoteAt(p).price) /\ OutcomeName(BatchQuoteAt(p)) = ""

(* the batch without the outcomes whose price is not a number and without  *)
(* the markets whose key is not recognized                                 *)
CleanedBatch(games) ==
    [gi \in 1..Len(games) |->
        [games[gi] EXCEPT !.bookmakers =
            [bi \in 1..Len(@) |->
                [@[bi] EXCEPT !.markets =
                    LET kept == SelectSeq(@, LAMBDA m : m.key \in SupportedMarkets)
                    IN [mi \in 1..Len(kept) |->
                           [kept[mi] EXCEPT !.outcomes =
                               SelectSeq(@, LAMBDA o : IsNumber(o.price))]]]]]]

(* the dicts of a selection, without the places they came from *)
BetsOf(list) == [k \in 1..Len(list) |-> [bet |-> list[k].bet, fallback |-> list[k].fallback]]

HasMalformedEntries == CleanedBatch(games_data) # games_data

TopBetsOfCleanedBatch ==
    get_top_bets(CleanedBatch(games_data), top_n, min_edge, bookmaker_aliases)

(* C12: on a batch with outcomes whose price is missing or not a number,   *)
(* or with markets of an unrecognized key, get_top_bets does not abort and *)
(* returns the selection of the batch without those outcomes and markets.  *)
C12_MalformedEntriesNeverAbort ==
    (TopDone /\ HasMalformedEntries) =>
        /\ ~top_bets.raised
        /\ BetsOf(top_bets.list) = BetsOf(TopBetsOfCleanedBatch.list)

(* what does hold: the call behaves as on the cleaned batch, the error of  *)
(* calc_fair_line included                                                 *)
TopBetsUnaffectedByMalformedEntries ==
    TopDone =>
        /\ top_bets.raised = TopBetsOfCleanedBatch.raised
        /\ BetsOf(top_bets.list) = BetsOf(TopBetsOfCleanedBatch.list)

(* C19: in the text made from a selection of get_top_bets, a line carries  *)
(* the fallback prefix and the fallback suffix if and only if the EV of    *)
(* its bet is below min_edge.                                              *)
C19_MarkerIffBelowMinEdge ==
    (TopDone /\ ~top_bets.raised /\ top_bets.list # <<>>) =>
        /\ Len(message) = Len(top_bets.list)
        /\ \A i \in 1..Len(message) :
              /\ message[i].prefix # "" <=> RLt(top_bets.list[i].bet.ev, min_edge)
              /\ message[i].suffix # "" <=> RLt(top_bets.list[i].bet.ev, min_edge)

C19_Witness ==
    /\ TopDone
    /\ \E i, j \in 1..Len(message) :
          /\ message[i].prefix = "" /\ message[i].suffix = ""
          /\ ~RLt(top_bets.list[i].bet.ev, min_edge)
          /\ message[j].prefix # "" /\ message[j].suffix # ""
          /\ RLt(top_bets.list[j].bet.ev, min_edge)

(* C20: every candidate is an outcome of a bookmaker whose lower-cased     *)
(* title contains one of the aliases in force, in a market with key h2h,   *)
(* spreads or totals, and no outcome becomes two candidates; outcomes of   *)
(* other bookmakers are never candidates.                                  *)
C20_CandidatesFromAliasBooks ==
    TopDone =>
        /\ \A i \in 1..Len(candidates) :
              /\ candidates[i].origin \in BatchPositions
              /\ BookHasAlias(candidates[i].origin)
              /\ BatchMarketAt(candidates[i].origin).key \in {"h2h", "spreads", "totals"}
              /\ candidates[i].bet.market = BatchMarketAt(candidates[i].origin).key
              /\ candidates[i].bet.bovada_odds = BatchQuoteAt(candidates[i].origin).price
        /\ \A i, j \in 1..Len(candidates) :
              candidates[i].origin = candidates[j].origin => i = j

(* a bookmaker without alias quotes the moneyline next to the scanned one: *)
(* its price moves the fair line and is no candidate                       *)
C20_Witness ==
    /\ TopDone
    /\ candidates # <<>>
    /\ \E p \in BatchPositions :
          /\ ~BookHasAlias(p)
          /\ BatchMarketAt(p).key = "h2h"
          /\ IsNumber(BatchQuoteAt(p).price) /\ ~RIsZero(BatchQuoteAt(p).price)
          /\ OutcomeName(BatchQuoteAt(p)) # ""
          /\ p \notin CandidateOrigins
          /\ \E i \in 1..Len(candidates) :
                /\ candidates[i].origin[1] = p[1]
                /\ candidates[i].bet.outcome = OutcomeName(BatchQuoteAt(p))

----------------------------------------------------------------------------
(* BovadaFilter (src/bovada_filter.py).  A bookmaker dict of a provider    *)
(* record is [title, direct, markets]: direct holds the market lists found *)
(* under the keys "h2h", "spreads", "totals" of the bookmaker dict itself, *)
(* markets is its "markets" list.  A step that raises yields status        *)
(* "error".                                                                *)

min_odds_threshold == Num(-500)
max_odds_threshold == Num(500)

(* a title that is None, and a price key that is absent *)
NoneTitle == <<"None">>
AbsentPrice == <<1, 0>>

(* outcome.get("price", 0) *)
PriceOrZero(o) == IF o.price = AbsentPrice THEN RZero ELSE o.price

(* odds == 0 *)
IsZeroOdds(x) == IsNumber(x) /\ RIsZero(x)

(* bookmaker.get("title", "").lower() in ["bovada", "bodog"] *)
IsBovadaTitle(title) ==
    \E a \in 1..Len(DefaultAliases) : Lower(title) = DefaultAliases[a]

(* the search loop of _extract_bovada_data: the first bookmaker with a     *)
(* matching title; a None title met on the way raises AttributeError       *)
RECURSIVE FindBovada(_)
FindBovada(bookmakers) ==
    IF bookmakers = <<>> THEN [status |-> "none"]
    ELSE IF Head(bookmakers).title = NoneTitle THEN [status |-> "error"]
    ELSE IF IsBovadaTitle(Head(bookmakers).title)
         THEN [status |-> "found", bookmaker |-> Head(bookmakers)]
         ELSE FindBovada(Tail(bookmakers))

(* _extract_bovada_data *)
extract_bovada_data(market) ==
    LET found == FindBovada(market.bookmakers)
    IN IF found.status # "found" THEN [status |-> found.status]
       ELSE [status |-> "found",
             data |-> [game_id |-> market.id,
                       home_team |-> market.home_team,
                       away_team |-> market.away_team,
                       markets |-> [t \in DOMAIN found.bookmaker.direct \cap SupportedMarkets |->
                                        found.bookmaker.direct[t]]]]

(* _normalize_moneyline, _normalize_spreads, _normalize_totals *)
normalize_moneyline(market_data) ==
    LET kept == SelectSeq(market_data, LAMBDA o : ~IsZeroOdds(PriceOrZero(o)))
    IN [i \in 1..Len(kept) |->
           [team |-> kept[i].description, odds |-> kept[i].price, market_type |-> "moneyline"]]

normalize_spreads(market_data) ==
    LET kept == SelectSeq(market_data, LAMBDA o : ~IsZeroOdds(PriceOrZero(o)))
    IN [i \in 1..Len(kept) |->
           [team |-> kept[i].description, spread |-> kept[i].point,
            odds |-> kept[i].price, market_type |-> "spread"]]

normalize_totals(market_data) ==
    LET kept == SelectSeq(market_data, LAMBDA o : ~IsZeroOdds(PriceOrZero(o)))
    IN [i \in 1..Len(kept) |->
           [side |-> kept[i].description, total |-> kept[i].point,
            odds |-> kept[i].price, market_type |-> "total"]]

(* the key under which _normalize_odds files a market type *)
NormalizedKey(market_type) == IF market_type = "h2h" THEN "moneyline" ELSE market_type

(* _normalize_odds; ok = FALSE is the None it returns for an empty odds dict *)
normalize_odds(bovada_data) ==
    LET odds == [k \in {NormalizedKey(t) : t \in DOMAIN bovada_data.markets} |->
                    IF k = "moneyline" THEN normalize_moneyline(bovada_data.markets["h2h"])
                    ELSE IF k = "spreads" THEN normalize_spreads(bovada_data.markets["spreads"])
                    ELSE normalize_totals(bovada_data.markets["totals"])]
    IN [ok |-> DOMAIN odds # {},
        data |-> [game_info |-> [game_id |-> bovada_data.game_id,
                                 home_team |-> bovada_data.home_team,
                                 away_team |-> bovada_data.away_team],
                  odds |-> odds]]

(* odds < self.min_odds_threshold or odds > self.max_odds_threshold *)
OutOfBandBelowOnly(x) == RLt(x, min_odds_threshold)
OutOfBand(x) == RLt(x, min_odds_threshold) \/ RLt(max_odds_threshold, x)

(* the loop over one odds list: "pass", "reject" (return False), or        *)
(* "error" for the TypeError of comparing a price that is not a number     *)
RECURSIVE ScreenOddsList(_)
ScreenOddsList(odds_list) ==
    IF odds_list = <<>> THEN "pass"
    ELSE IF ~IsNumber(Head(odds_list).odds) THEN "error"
    ELSE IF OutOfBand(Head(odds_list).odds) THEN "reject"
    ELSE IF RIsZero(Head(odds_list).odds) THEN "reject"
    ELSE ScreenOddsList(Tail(odds_list))

(* the order in which the odds dict is walked: the order of insertion *)
NormalizedKeys == <<"moneyline", "spreads", "totals">>

RECURSIVE ScreenMarkets(_, _)
ScreenMarkets(odds, keys) ==
    IF keys = <<>> THEN "pass"
    ELSE IF Head(keys) \notin DOMAIN odds THEN ScreenMarkets(odds, Tail(keys))
    ELSE LET first == ScreenOddsList(odds[Head(keys)])
         IN IF first # "pass" THEN first ELSE ScreenMarkets(odds, Tail(keys))

(* _passes_quality_filters *)
passes_quality_filters(normalized_data) ==
    IF normalized_data.game_info.home_team = "" \/ normalized_data.game_info.away_team = ""
    THEN "reject"
    ELSE ScreenMarkets(normalized_data.odds, NormalizedKeys)

(* the body of the try block for one record: "keep" with the normalized    *)
(* record, "skip", or "error"                                              *)
ProcessRecord(market) ==
    LET extracted == extract_bovada_data(market)
        normalized == normalize_odds(extracted.data)
        verdict == passes_quality_filters(normalized.data)
    IN IF extracted.status = "error" THEN [status |-> "error"]
       ELSE IF extracted.status = "none" THEN [status |-> "skip"]
       ELSE IF ~normalized.ok THEN [status |-> "skip"]
       ELSE IF verdict = "error" THEN [status |-> "error"]
       ELSE IF verdict = "reject" THEN [status |-> "skip"]
       ELSE [status |-> "keep", data |-> normalized.data]

(* except Exception: log and continue *)
CatchesExceptionNever == FALSE
CatchesException == TRUE

(* BovadaFilter.filter_markets *)
RECURSIVE FilterFrom(_, _)
FilterFrom(records, acc) ==
    IF records = <<>> THEN [raised |-> FALSE, list |-> acc]
    ELSE LET done == ProcessRecord(Head(records))
         IN IF done.status = "error" /\ ~CatchesException
            THEN [raised |-> TRUE, list |-> <<>>]
            ELSE FilterFrom(Tail(records),
                            IF done.status = "keep" THEN Append(acc, done.data) ELSE acc)

filter_markets(records) == FilterFrom(records, <<>>)

----------------------------------------------------------------------------
(* Provider records handed to filter_markets.                              *)

MaxFilterQuotes == 3   \* outcome quotes per batch of provider records

(* outcomes of the records that reach the price screen: prices just        *)
(* outside and on the two ends of the guard band, a zero price, an absent  *)
(* price and a price that is not a number                                  *)
EdgeQuotes ==
    { Quote("Lakers", "Lakers", Num(-501), 1),
      Quote("Lakers", "Lakers", Num(-500), 1),
      Quote("Lakers", "Lakers", Num(500), 1),
      Quote("Lakers", "Lakers", Num(501), 1),
      Quote("Lakers", "Lakers", Num(0), 1),
      Quote("Lakers", "Lakers", AbsentPrice, 1),
      Quote("Lakers", "Lakers", NotANumber, 1) }

(* outcomes of the records that are dropped before their prices are read *)
PlainQuotes == { Quote("Lakers", "Lakers", Num(-110), 1) }

(* the records of a batch: the participants, the titles of the bookmakers  *)
(* in list order, where the last bookmaker keeps its outcomes (under one   *)
(* of its own keys, or in its "markets" list as the provider lays a        *)
(* record out), and the outcomes it may hold.  A missing participant name  *)
(* is "".                                                                  *)
FilterSlots ==
    << [home_team |-> "Lakers", away_team |-> "Celtics", place |-> "h2h",
        titles |-> << <<"B", "o", "v", "a", "d", "a">> >>,
        quotes |-> EdgeQuotes],
       [home_team |-> "Lakers", away_team |-> "Celtics", place |-> "h2h",
        titles |-> << NoneTitle, <<"B", "o", "v", "a", "d", "a">> >>,
        quotes |-> PlainQuotes],
       [home_team |-> "", away_team |-> "Celtics", place |-> "h2h",
        titles |-> << <<"B", "o", "v", "a", "d", "a">> >>,
        quotes |-> PlainQuotes],
       [home_team |-> "Lakers", away_team |-> "Celtics", place |-> "totals",
        titles |-> << <<"F", "a", "n", "D", "u", "e", "l">>, <<"B", "O", "D", "O", "G">> >>,
        quotes |-> EdgeQuotes],
       [home_team |-> "Lakers", away_team |-> "Celtics", place |-> "h2h",
        titles |-> << <<"F", "a", "n", "D", "u", "e", "l">> >>,
        quotes |-> PlainQuotes],
       [home_team |-> "Lakers", away_team |-> "Celtics", place |-> "markets",
        titles |-> << <<"B", "o", "v", "a", "d", "a">> >>,
        quotes |-> PlainQuotes],
       [home_team |-> "Lakers", away_team |-> "", place |-> "spreads",
        titles |-> << <<"B", "o", "v", "a", "d", "a">> >>,
        quotes |-> PlainQuotes],
       [home_team |-> "Lakers", away_team |-> "Celtics", place |-> "spreads",
        titles |-> << <<"B", "o", "v", "a", "d", "a">> >>,
        quotes |-> EdgeQuotes] >>

NoDirectMarkets == [t \in {} |-> <<>>]

(* record k of FilterSlots with the given outcomes; its id is k *)
ProviderRecord(k, outcomes) ==
    LET slot == FilterSlots[k]
        last == Len(slot.titles)
    IN [id |-> k,
        home_team |-> slot.home_team,
        away_team |-> slot.away_team,
        bookmakers |-> [i \in 1..last |->
            [title |-> slot.titles[i],
             direct |-> IF i = last /\ slot.place \in SupportedMarkets
                        THEN [t \in {slot.place} |-> outcomes]
                        ELSE NoDirectMarkets,
             markets |-> IF i = last /\ slot.place = "markets"
                         THEN << [key |-> "h2h", outcomes |-> outcomes] >>
                         ELSE <<>>]]]

(* the batch in which record k holds the outcomes outcomes[k]; a record    *)
(* without outcomes is not in the batch                                    *)
RecordsOf(outcomes) ==
    MapSeq(LAMBDA k : ProviderRecord(k, outcomes[k]),
           SelectSeq([k \in 1..Len(FilterSlots) |-> k], LAMBDA k : outcomes[k] # <<>>))

(* the ways to give record k count outcomes *)
OutcomeLists(k, count) == [1..count -> FilterSlots[k].quotes]

InitFilter ==
    /\ pc = "filter_call"
    /\ \E counts \in [1..Len(FilterSlots) -> 0..MaxFilterQuotes] :
          /\ SumSeq(counts) <= MaxFilterQuotes
          /\ \E o1 \in OutcomeLists(1, counts[1]), o2 \in OutcomeLists(2, counts[2]),
                o3 \in OutcomeLists(3, counts[3]), o4 \in OutcomeLists(4, counts[4]),
                o5 \in OutcomeLists(5, counts[5]), o6 \in OutcomeLists(6, counts[6]),
                o7 \in OutcomeLists(7, counts[7]), o8 \in OutcomeLists(8, counts[8]) :
                raw_markets = RecordsOf(<<o1, o2, o3, o4, o5, o6, o7, o8>>)
    /\ filtered_markets = NoResult
    /\ IdleSelect
    /\ IdleEv
    /\ IdleFair
    /\ IdleTrip
    /\ IdleTop

FilterMarkets ==
    /\ pc = "filter_call"
    /\ filtered_markets' = filter_markets(raw_markets)
    /\ pc' = "filter_done"
    /\ UNCHANGED <<raw_markets, selectVars, evVars, fairVars, tripVars, topVars>>

NextFilter == FilterMarkets

SpecFilter == InitFilter /\ [][NextFilter]_vars

----------------------------------------------------------------------------
(* Properties of filter_markets.                                           *)

FilterDone == pc = "filter_done"

(* the ids of the records returned *)
FilteredIds ==
    {filtered_markets.list[i].game_info.game_id : i \in 1..Len(filtered_markets.list)}

(* the input record with the given id *)
RawRecord(id) == raw_markets[CHOOSE i \in 1..Len(raw_markets) : raw_markets[i].id = id]

(* the market lists filter_markets reads from a record: those of its       *)
(* first bookmaker titled bovada or bodog, if it has one                   *)
ReadMarkets(record) ==
    LET hits == SelectSeq(record.bookmakers, LAMBDA b : IsBovadaTitle(b.title))
    IN IF hits = <<>> THEN NoDirectMarkets
       ELSE [t \in DOMAIN Head(hits).direct \cap SupportedMarkets |-> Head(hits).direct[t]]

PricesIn(outcomes) == [i \in 1..Len(outcomes) |-> outcomes[i].price]
OddsIn(odds_list) == [i \in 1..Len(odds_list) |-> odds_list[i].odds]

InBand(x) == IsNumber(x) /\ RLe(Num(-500), x) /\ RLe(x, Num(500))

(* C17: a returned record has a home and an away name, and each of its     *)
(* prices is a nonzero number within [-500, 500]; a record one of whose    *)
(* read prices is a number outside the band is not returned; a returned    *)
(* record holds, market by market, the read prices without the zero ones.  *)
C17_ReturnedRecordsAreInBand ==
    FilterDone =>
        /\ \A i \in 1..Len(filtered_markets.list) :
              LET rec == filtered_markets.list[i]
                  read == ReadMarkets(RawRecord(rec.game_info.game_id))
              IN /\ rec.game_info.home_team # "" /\ rec.game_info.away_team # ""
                 /\ \A k \in DOMAIN rec.odds : \A j \in 1..Len(rec.odds[k]) :
                       InBand(rec.odds[k][j].odds) /\ ~RIsZero(rec.odds[k][j].odds)
                 /\ DOMAIN rec.odds = {NormalizedKey(t) : t \in DOMAIN read}
                 /\ \A t \in DOMAIN read :
                       OddsIn(rec.odds[NormalizedKey(t)])
                           = SelectSeq(PricesIn(read[t]),
                                       LAMBDA x : x # AbsentPrice /\ ~IsZeroOdds(x))
        /\ \A r \in 1..Len(raw_markets) :
              LET read == ReadMarkets(raw_markets[r])
              IN (\E t \in DOMAIN read : \E j \in 1..Len(read[t]) :
                      IsNumber(read[t][j].price) /\ ~InBand(read[t][j].price))
                     => raw_markets[r].id \notin FilteredIds

(* one record is returned without its zero price and with a price on the   *)
(* end of the band, another is rejected for a price just outside           *)
C17_Witness ==
    /\ FilterDone
    /\ \E i \in 1..Len(filtered_markets.list) :
          LET rec == filtered_markets.list[i]
              read == ReadMarkets(RawRecord(rec.game_info.game_id))
          IN \E t \in DOMAIN read :
                /\ \E j \in 1..Len(read[t]) : IsZeroOdds(read[t][j].price)
                /\ Len(rec.odds[NormalizedKey(t)]) = 1
                /\ rec.odds[NormalizedKey(t)][1].odds \in {Num(-500), Num(500)}
    /\ \E r \in 1..Len(raw_markets) :
          /\ raw_markets[r].id \notin FilteredIds
          /\ raw_markets[r].home_team # "" /\ raw_markets[r].away_team # ""
          /\ \E t \in DOMAIN ReadMarkets(raw_markets[r]) :
                PricesIn(ReadMarkets(raw_markets[r])[t]) \in {<<Num(-501)>>, <<Num(501)>>}

(* C18: filter_markets does not raise on a batch with records that fail in *)
(* extraction, normalization or screening; it returns, in input order,     *)
(* what it returns for each record alone.                                  *)
C18_BadRecordsAreSkipped ==
    FilterDone =>
        /\ ~filtered_markets.raised
        /\ filtered_markets.list
              = Concat([i \in 1..Len(raw_markets) |-> filter_markets(<<raw_markets[i]>>).list])
        /\ \A i, j \in 1..Len(filtered_markets.list) :
              i < j => filtered_markets.list[i].game_info.game_id
                          < filtered_markets.list[j].game_info.game_id

(* a record whose processing raises stands between two records that pass *)
C18_Witness ==
    /\ FilterDone
    /\ Len(filtered_markets.list) = 2
    /\ \E r \in 2..(Len(raw_markets) - 1) :
          /\ ProcessRecord(raw_markets[r]).status = "error"
          /\ raw_markets[r - 1].id \in FilteredIds
          /\ raw_markets[r + 1].id \in FilteredIds

(* C23: every record returned holds a market with at least one outcome;   *)
(* a record whose markets are all empty once the zero prices are dropped   *)
(* is not returned.                                                        *)
C23_ReturnedRecordsHoldAValidMarket ==
    FilterDone =>
        \A i \in 1..Len(filtered_markets.list) :
            \E k \in DOMAIN filtered_markets.list[i].odds :
                filtered_markets.list[i].odds[k] # <<>>

(* what _normalize_odds does guarantee: a returned record has a market key *)
ReturnedRecordsHoldAMarketKey ==
    FilterDone =>
        \A i \in 1..Len(filtered_markets.list) : DOMAIN filtered_markets.list[i].odds # {}

----------------------------------------------------------------------------
(* One provider record handed to filter_markets and to get_top_bets.       *)

MaxFlowQuotes == 2     \* outcome quotes of the record

(* bookmaker titles: the two default aliases, a title that contains one,   *)
(* and another bookmaker                                                   *)
FlowTitles ==
    { <<"B", "o", "v", "a", "d", "a">>,
      <<"B", "O", "D", "O", "G">>,
      <<"B", "o", "v", "a", "d", "a", " ", "L", "V">>,
      <<"F", "a", "n", "D", "u", "e", "l">> }

(* where the bookmaker keeps its outcomes: in its "markets" list (the      *)
(* provider's layout), under a key of its own named after the market       *)
(* type, or in both places                                                 *)
FlowLayouts == {"markets", "direct", "both"}

FlowKeys == {"h2h", "totals"}

FlowQuotes ==
    { Quote("Lakers", "Lakers", Num(-110), 1),
      Quote("Celtics", "Celtics", Num(150), 1),
      Quote("Celtics", "Celtics", Num(0), 1),
      Quote("Celtics", "Celtics", Num(501), 1) }

FlowRecord(title, layout, key, home, outcomes) ==
    [id |-> 1,
     home_team |-> home,
     away_team |-> "Celtics",
     bookmakers |->
        << [title |-> title,
            direct |-> IF layout \in {"direct", "both"}
                       THEN [t \in {key} |-> outcomes] ELSE NoDirectMarkets,
            markets |-> IF layout \in {"markets", "both"}
                        THEN << [key |-> key, outcomes |-> outcomes] >> ELSE <<>>] >>]

InitFlow ==
    /\ pc = "filter_call"
    /\ \E title \in FlowTitles, layout \in FlowLayouts, key \in FlowKeys,
          home \in {"Lakers", ""}, count \in 1..MaxFlowQuotes :
          \E outcomes \in [1..count -> FlowQuotes] :
             raw_markets = << FlowRecord(title, layout, key, home, outcomes) >>
    /\ games_data = raw_markets
    /\ filtered_markets = NoResult
    /\ bookmaker_aliases = <<>>
    /\ candidates = <<>>
    /\ top_bets = NoResult
    /\ message = <<>>
    /\ IdleSelect
    /\ IdleEv
    /\ IdleFair
    /\ IdleTrip

(* get_top_bets on the record, with the default n, min_edge and aliases *)
ScanRecord ==
    /\ pc = "filter_done"
    /\ \E result \in {get_top_bets(games_data, 10, Rat(1, 50), <<>>)} :
          /\ candidates' = result.candidates
          /\ top_bets' = [raised |-> result.raised, list |-> result.list]
    /\ pc' = "flow_done"
    /\ UNCHANGED <<games_data, bookmaker_aliases, message,
                   selectVars, evVars, fairVars, tripVars, filterVars>>

NextFlow == FilterMarkets \/ ScanRecord

SpecFlow == InitFlow /\ [][NextFlow]_vars

FlowDone == pc = "flow_done"

(* the outcome a candidate was built from, and the key of its market *)
FlowMarketAt(origin) == raw_markets[origin[1]].bookmakers[origin[2]].markets[origin[3]]
FlowQuoteAt(origin) == FlowMarketAt(origin).outcomes[origin[4]]

(* the extraction holds the market of the candidate and its price *)
ExtractionHolds(extracted, origin) ==
    /\ extracted.status = "found"
    /\ FlowMarketAt(origin).key \in DOMAIN extracted.data.markets
    /\ \E j \in 1..Len(extracted.data.markets[FlowMarketAt(origin).key]) :
          extracted.data.markets[FlowMarketAt(origin).key][j].price
              = FlowQuoteAt(origin).price

(* every price of the bookmaker's markets list is a number in the band *)
OnlyInBandPrices(record) ==
    \A b \in 1..Len(record.bookmakers) : \A m \in 1..Len(record.bookmakers[b].markets) :
        \A o \in 1..Len(record.bookmakers[b].markets[m].outcomes) :
            /\ InBand(record.bookmakers[b].markets[m].outcomes[o].price)
            /\ ~RIsZero(record.bookmakers[b].markets[m].outcomes[o].price)

(* C22: for every outcome of the record that get_top_bets turns into a     *)
(* candidate, the filter's extraction of the record holds the market of    *)
(* the outcome and its price; and such a record with both participant      *)
(* names and only in-band prices is returned by filter_markets.            *)
C22_FilterReadsWhatTheScanReads ==
    FlowDone =>
        /\ \A i \in 1..Len(candidates) :
              ExtractionHolds(extract_bovada_data(raw_markets[1]), candidates[i].origin)
        /\ (/\ candidates # <<>>
            /\ raw_markets[1].home_team # ""
            /\ OnlyInBandPrices(raw_markets[1]))
              => Len(filtered_markets.list) = 1

(* what does hold: a record that keeps the same outcomes in both places    *)
(* under an exact default title is read alike by the two                   *)
FilterReadsWhatTheScanReadsInBothLayouts ==
    (/\ FlowDone
     /\ raw_markets[1].bookmakers[1].direct # NoDirectMarkets
     /\ IsBovadaTitle(raw_markets[1].bookmakers[1].title)) =>
        /\ \A i \in 1..Len(candidates) :
              ExtractionHolds(extract_bovada_data(raw_markets[1]), candidates[i].origin)
        /\ (/\ candidates # <<>>
            /\ raw_markets[1].home_team # ""
            /\ OnlyInBandPrices(raw_markets[1]))
              => Len(filtered_markets.list) = 1

====
